---------------------------- MODULE Spec2Model ----------------------------
(***************************************************************************)
(* Voice-profile recording state machine of the voice-cloning service.     *)
(*                                                                         *)
(* The repository holds two implementations of VoiceProfileService:        *)
(*   app/services/voice_profile_service.py  (wired to the routes; profile  *)
(*       kept as <storage>/<id>/meta.json next to the step recordings)     *)
(*   app/models/voice_profile_service.py    (pydantic VoiceProfile, kept   *)
(*       as voice_profiles/<id>.json plus an in-memory active_sessions     *)
(*       cache and voice_recordings/<id>/ for the audio)                   *)
(* A process runs one of them; impl records which.  Every service method   *)
(* is a coroutine whose awaits (AudioProcessor.load_audio, validate_audio, *)
(* save_audio) never reach a pending future, so a call runs to completion  *)
(* on the event loop: one action per call.                                 *)
(***************************************************************************)
EXTENDS Integers, Sequences, FiniteSets, TLC

VARIABLES impl, disk, files, active_sessions, issued, submitted, removals, last

(* The synthesis side (app/services/tts_engine.py, voice_cloning_service.py): *)
(* deployment is the installed backend and the settings, engine the fields   *)
(* of the XTTSTTSEngine, tasks the requests in flight on it, begun the calls  *)
(* made so far, called the most recent finished call.                        *)
VARIABLES deployment, engine, tasks, begun, called

(* The platform around them: background_tasks is the BackgroundTasks object, *)
(* control the start or stop call in flight on it (app/core/                 *)
(* background_tasks.py); upload_dir holds the names of the files in the      *)
(* upload directory, aged those older than a day, store_call the most recent *)
(* call of the FileManager (app/services/file_manager.py); clock is the time *)
(* in seconds, buckets the deques of the RateLimiter, http_response what the *)
(* RateLimitMiddleware answered last (app/core/rate_limiting.py,             *)
(* app/middleware/rate_limit_middleware.py).                                 *)
VARIABLES background_tasks, control, upload_dir, aged, store_call, clock, buckets, http_response
VARIABLES torch_load, workers

profile_vars == <<impl, disk, files, active_sessions, issued, submitted, removals, last>>
engine_vars == <<deployment, engine, tasks, begun, called>>
torch_vars == <<torch_load, workers>>
platform_vars == <<background_tasks, control, upload_dir, aged, store_call, clock, buckets, http_response,
                  torch_load, workers>>

vars == <<impl, disk, files, active_sessions, issued, submitted, removals, last,
          deployment, engine, tasks, begun, called,
          background_tasks, control, upload_dir, aged, store_call, clock, buckets, http_response,
          torch_load, workers>>

-----------------------------------------------------------------------------
(* Bounds of the model *)

MaxProfiles == 1
MaxRunSteps == 5
MaxUses == 2
MaxRemovals == 1

(* Program constants *)

MinTotalSteps == 5
MaxTotalSteps == 20
DefaultTotalSteps == 3
PromptPoolSize == 4
RecordingPromptCount == 15

Impls == {"services", "models"}
Users == {"u1", "u2"}
(* sessions are started by one of the users; the other one is the stranger *)
Owners == {"u1"}
ProfileIds == 1..MaxProfiles

None == [none |-> TRUE]

-----------------------------------------------------------------------------
(* Uploaded audio samples.  A sample is what the decoder yields:           *)
(* decodable, duration (tenths of a second), peak amplitude (thousandths), *)
(* share of near-silent samples (percent), std of the framed RMS           *)
(* (thousandths).                                                          *)

CleanSample == [decodable |-> TRUE, duration |-> 50, peak |-> 300, silent |-> 10, rms_std |-> 20]
ClippedSample == [decodable |-> TRUE, duration |-> 50, peak |-> 990, silent |-> 10, rms_std |-> 150]
SilentSample == [decodable |-> TRUE, duration |-> 5, peak |-> 0, silent |-> 100, rms_std |-> 0]
CorruptSample == [decodable |-> FALSE, duration |-> 0, peak |-> 0, silent |-> 0, rms_std |-> 0]

Samples == {CleanSample, ClippedSample, SilentSample, CorruptSample}

(* the samples the recorder uploads in the state machine below *)
SubmittedSamples == {CleanSample, SilentSample}

Max(a, b) == IF a >= b THEN a ELSE b

(* AudioProcessor.validate_audio: never raises; False on a decode error,   *)
(* duration < max(3.0, min_duration) or > max_duration, peak < 0.01.       *)
MinDurationTenths == 5
MaxDurationTenths == 3000
CloningMinDurationTenths == 30
MinPeakThousandths == 10

(* validate_audio without the floor of 3 seconds on the duration *)
validate_audio_any_length(sample) ==
    IF ~sample.decodable THEN FALSE
    ELSE IF sample.duration < MinDurationTenths THEN FALSE
    ELSE IF sample.duration > MaxDurationTenths THEN FALSE
    ELSE IF sample.peak < MinPeakThousandths THEN FALSE
    ELSE TRUE

validate_audio(sample) ==
    IF ~sample.decodable THEN FALSE
    ELSE IF sample.duration < Max(CloningMinDurationTenths, MinDurationTenths) THEN FALSE
    ELSE IF sample.duration > MaxDurationTenths THEN FALSE
    ELSE IF sample.peak < MinPeakThousandths THEN FALSE
    ELSE TRUE

(* VoiceProfileService._analyze_recording_quality (models variant).        *)
SuitableScore == 60

analyze_recording_quality(sample) ==
    IF ~sample.decodable
    THEN [duration |-> 0, quality_score |-> 50, suitable |-> FALSE]
    ELSE LET d == IF sample.duration < 20 THEN 20
                  ELSE IF sample.duration > 150 THEN 10 ELSE 0
             v == IF sample.peak < 100 THEN 25
                  ELSE IF sample.peak > 950 THEN 15 ELSE 0
             n == IF sample.silent > 30 THEN 20 ELSE 0
             c == IF sample.rms_std > 100 THEN 10 ELSE 0
             score == Max(0, 100 - d - v - n - c)
         IN [duration |-> sample.duration, quality_score |-> score,
             suitable |-> score >= SuitableScore]

-----------------------------------------------------------------------------
(* Profile names: sequences of characters; str.strip() drops blanks at     *)
(* both ends.                                                              *)

RECURSIVE lstrip(_)
lstrip(s) == IF s = <<>> THEN s
             ELSE IF Head(s) = " " THEN lstrip(Tail(s)) ELSE s

RECURSIVE rstrip(_)
rstrip(s) == IF s = <<>> THEN s
             ELSE IF s[Len(s)] = " " THEN rstrip(SubSeq(s, 1, Len(s) - 1)) ELSE s

strip(s) == rstrip(lstrip(s))

ProfileNames == {<<" ">>, <<"V", "A">>}

-----------------------------------------------------------------------------
(* Files of a profile's audio directory *)

StepFile(n) == <<"step", n>>
EmbeddingFile == <<"voice_embedding", 0>>

(* Results of a call: the exception raised ("none" on return), its         *)
(* ErrorCode, and the returned value.                                      *)

Returned(v) == [exc |-> "none", code |-> "none", ret |-> v, statuses |-> <<>>]
Raised(e, c) == [exc |-> e, code |-> c, ret |-> None, statuses |-> <<>>]

Outcome(d, f, s, r) == [disk |-> d, files |-> f, sessions |-> s, res |-> r]


-----------------------------------------------------------------------------
(* Python list helpers: seq[:n] and seq * k *)

Min(a, b) == IF a <= b THEN a ELSE b

Take(seq, n) == SubSeq(seq, 1, Min(n, Len(seq)))

RECURSIVE Repeat(_, _)
Repeat(seq, k) == IF k <= 0 THEN <<>> ELSE seq \o Repeat(seq, k - 1)

(* The prompt pools, a prompt being named by its position in the pool *)
PROMPTS == [i \in 1..PromptPoolSize |-> i]
RECORDING_PROMPTS == [i \in 1..RecordingPromptCount |-> i]

(* progress_percentage = num / den * 100, kept exact *)
Percentage(num, den) == [num |-> num * 100, den |-> den]

-----------------------------------------------------------------------------
(* app/services/voice_profile_service.py                                   *)

svc_load_meta(d, pid) == d[pid]

svc_start_recording_session(d, f, s, id, user, name, total) ==
    LET profile_name == strip(name)
        t0 == IF total = 0 THEN DefaultTotalSteps ELSE total
        total_steps == IF t0 <= 0 THEN DefaultTotalSteps ELSE t0
        prompts == IF Len(PROMPTS) >= total_steps
                   THEN Take(PROMPTS, total_steps)
                   ELSE Take(Repeat(PROMPTS, (total_steps \div Max(1, Len(PROMPTS))) + 1),
                             total_steps)
        meta == [profile_id |-> id, profile_name |-> profile_name, owner |-> user,
                 total_steps |-> total_steps, current_step |-> 1,
                 status |-> "recording", prompts |-> prompts,
                 quality |-> "processing", times_used |-> 0]
    IN IF profile_name = <<>>
       THEN Outcome(d, f, s, Raised("ValidationException", "MISSING_PARAMETER"))
       ELSE Outcome([d EXCEPT ![id] = meta], f, s,
                    Returned([profile_id |-> id, total_steps |-> meta.total_steps,
                              current_step |-> meta.current_step,
                              progress_percentage |-> Percentage(0, 1),
                              next_prompt |-> IF meta.prompts # <<>>
                                              THEN <<meta.prompts[1]>> ELSE <<>>]))

svc_submit_recording_step(d, f, s, user, pid, step_number, sample) ==
    LET meta == svc_load_meta(d, pid)
    IN IF meta = None
       THEN Outcome(d, f, s, Raised("ValidationException", "FILE_NOT_FOUND"))
       ELSE IF meta.owner # user
       THEN Outcome(d, f, s, Raised("ValidationException", "FILE_NOT_FOUND"))
       ELSE IF step_number # meta.current_step
       THEN Outcome(d, f, s, Raised("ValidationException", "INVALID_INPUT"))
       ELSE IF ~validate_audio(sample)
       THEN Outcome(d, f, s, Raised("ValidationException", "AUDIO_QUALITY_POOR"))
       ELSE LET dest == [name |-> StepFile(step_number), decodable |-> sample.decodable]
                f1 == [f EXCEPT ![pid] =
                          {x \in @ : x.name # dest.name} \cup {dest}]
                advanced == meta.current_step + 1
                m1 == IF advanced > meta.total_steps
                      THEN [meta EXCEPT !.status = "ready",
                                        !.current_step = meta.total_steps,
                                        !.quality = "ready"]
                      ELSE [meta EXCEPT !.current_step = advanced]
                next_prompt == IF m1.status # "ready" /\ m1.current_step <= m1.total_steps
                                  /\ m1.current_step - 1 < Len(m1.prompts)
                               THEN <<m1.prompts[m1.current_step]>>
                               ELSE <<>>
            IN Outcome([d EXCEPT ![pid] = m1], f1, s,
                       Returned([profile_id |-> pid, total_steps |-> m1.total_steps,
                                 current_step |-> m1.current_step,
                                 progress_percentage |->
                                     Percentage(m1.current_step - 1, m1.total_steps),
                                 next_prompt |-> next_prompt]))

(* use_voice_profile looks for speaker.wav, step_1.wav, step_2.wav and     *)
(* then any *.wav of the profile directory; nothing writes speaker.wav.    *)
svc_reference_candidate(fs) ==
    IF \E x \in fs : x.name = StepFile(1) THEN <<StepFile(1)>>
    ELSE IF \E x \in fs : x.name = StepFile(2) THEN <<StepFile(2)>>
    ELSE IF fs # {} THEN <<(CHOOSE x \in fs : TRUE).name>>
    ELSE <<>>

svc_use_voice_profile(d, f, s, user, pid) ==
    LET meta == svc_load_meta(d, pid)
        candidate == svc_reference_candidate(f[pid])
    IN IF meta = None
       THEN Outcome(d, f, s, Raised("ValidationException", "FILE_NOT_FOUND"))
       ELSE IF meta.owner # user
       THEN Outcome(d, f, s, Raised("ValidationException", "FILE_NOT_FOUND"))
       ELSE IF meta.status # "ready"
       THEN Outcome(d, f, s, Raised("ValidationException", "INVALID_INPUT"))
       ELSE IF candidate = <<>>
       THEN Outcome(d, f, s, Raised("SystemException", "UNKNOWN_ERROR"))
       ELSE LET m1 == [meta EXCEPT !.times_used = @ + 1]
            IN Outcome([d EXCEPT ![pid] = m1], f, s,
                       Returned([profile_id |-> pid,
                                 voice_embedding_path |-> candidate,
                                 quality |-> <<m1.quality>>]))

(* A faulty delete, for comparison: the owner check is missing. *)
delete_without_owner_check(d, f, s, user, pid) ==
    IF svc_load_meta(d, pid) = None
    THEN Outcome(d, f, s, Raised("ValidationException", "FILE_NOT_FOUND"))
    ELSE Outcome([d EXCEPT ![pid] = None], [f EXCEPT ![pid] = {}], s,
                 Returned([deleted |-> TRUE]))

svc_delete_voice_profile(d, f, s, user, pid) ==
    LET meta == svc_load_meta(d, pid)
    IN IF meta = None
       THEN Outcome(d, f, s, Raised("ValidationException", "FILE_NOT_FOUND"))
       ELSE IF meta.owner # user
       THEN Outcome(d, f, s, Raised("ValidationException", "FILE_NOT_FOUND"))
       ELSE Outcome([d EXCEPT ![pid] = None], [f EXCEPT ![pid] = {}], s,
                    Returned([deleted |-> TRUE]))

-----------------------------------------------------------------------------
(* app/models/voice_profile_service.py                                     *)
(* Optional fields are <<>> (None) or <<value>>.                           *)

RecordingStep(i, prompt) ==
    [step_number |-> i, text_prompt |-> prompt, duration |-> <<>>,
     quality_score |-> <<>>, completed |-> FALSE, recording_url |-> <<>>]

RECURSIVE SumOver(_, _)
SumOver(seq, field) ==
    IF seq = <<>> THEN 0 ELSE seq[1][field][1] + SumOver(Tail(seq), field)

(* A faulty count, for comparison: the steps not yet completed. *)
OpenSteps(profile) ==
    SelectSeq(profile.recording_steps, LAMBDA st : ~st.completed)

CompletedSteps(profile) ==
    SelectSeq(profile.recording_steps, LAMBDA st : st.completed)

(* quality tier of the mean score sum/n *)
QualityTier(sum, n) ==
    IF sum >= 90 * n THEN "excellent"
    ELSE IF sum >= 75 * n THEN "good"
    ELSE IF sum >= 60 * n THEN "fair"
    ELSE "poor"

(* _get_profile: the active session first, else the record on disk *)
mdl_get_profile(d, s, pid) == IF s[pid] # None THEN s[pid] ELSE d[pid]

(* _create_voice_embedding: loads every completed step's recording and     *)
(* writes voice_embedding.wav; raises when a recording cannot be loaded.   *)
mdl_create_voice_embedding(profile, fs) ==
    LET urls == {profile.recording_steps[i].recording_url[1] :
                    i \in {j \in 1..Len(profile.recording_steps) :
                              /\ profile.recording_steps[j].completed
                              /\ profile.recording_steps[j].recording_url # <<>>}}
        loadable == \A u \in urls : \E x \in fs : x.name = u /\ x.decodable
    IN IF ~loadable
       THEN [raised |-> TRUE, profile |-> profile, files |-> fs]
       ELSE IF urls = {}
       THEN [raised |-> FALSE, profile |-> profile, files |-> fs]
       ELSE [raised |-> FALSE,
             profile |-> [profile EXCEPT !.voice_embedding = <<EmbeddingFile>>],
             files |-> {x \in fs : x.name # EmbeddingFile}
                          \cup {[name |-> EmbeddingFile, decodable |-> TRUE]}]

(* A faulty finalize, for comparison: the exception handler is missing, so *)
(* a failed embedding leaves the status where finalize put it.             *)
finalize_without_handler(profile, fs) ==
    LET p1 == [profile EXCEPT !.status = "processing"]
        emb == mdl_create_voice_embedding(p1, fs)
    IN IF emb.raised
       THEN [profile |-> emb.profile, files |-> emb.files, statuses |-> <<"processing">>]
       ELSE [profile |-> [emb.profile EXCEPT !.status = "ready"], files |-> emb.files,
             statuses |-> <<"processing", "ready">>]

(* _finalize_voice_profile: processing, then ready, or failed on any       *)
(* exception; statuses lists the values status took on the way.            *)
mdl_finalize_voice_profile(profile, fs) ==
    LET done == CompletedSteps(profile)
        p1 == [profile EXCEPT !.status = "processing"]
        p2 == IF done # <<>>
              THEN [p1 EXCEPT
                      !.overall_quality_score =
                          <<[sum |-> SumOver(done, "quality_score"), n |-> Len(done)]>>,
                      !.total_duration = <<SumOver(done, "duration")>>,
                      !.quality = <<QualityTier(SumOver(done, "quality_score"), Len(done))>>]
              ELSE p1
        emb == mdl_create_voice_embedding(p2, fs)
    IN IF emb.raised
       THEN [profile |-> [emb.profile EXCEPT !.status = "failed"], files |-> emb.files,
             statuses |-> <<"processing", "failed">>]
       ELSE [profile |-> [emb.profile EXCEPT !.status = "ready"], files |-> emb.files,
             statuses |-> <<"processing", "ready">>]

mdl_start_recording_session(d, f, s, id, user, name, total) ==
    LET selected_prompts == Take(RECORDING_PROMPTS, total)
        profile == [profile_id |-> id, user_id |-> user, profile_name |-> name,
                    status |-> "recording", quality |-> <<>>,
                    recording_steps |->
                        [i \in 1..Len(selected_prompts) |->
                            RecordingStep(i, selected_prompts[i])],
                    total_steps |-> total, completed_steps |-> 0,
                    voice_embedding |-> <<>>, overall_quality_score |-> <<>>,
                    total_duration |-> <<>>, times_used |-> 0]
        d1 == [d EXCEPT ![id] = profile]
        s1 == [s EXCEPT ![id] = profile]
    IN IF profile.recording_steps = <<>>
       THEN Outcome(d1, f, s1, Raised("SystemException", "UNKNOWN_ERROR"))
       ELSE Outcome(d1, f, s1,
                    Returned([profile_id |-> id, total_steps |-> profile.total_steps,
                              current_step |-> 1,
                              progress_percentage |-> Percentage(0, 1),
                              next_prompt |-> <<profile.recording_steps[1].text_prompt>>]))


mdl_submit_recording_step(d, f, s, user, pid, step_number, sample) ==
    LET profile == mdl_get_profile(d, s, pid)
        cached == s[pid] # None
    IN IF profile = None
       THEN Outcome(d, f, s, Raised("ValidationException", "FILE_NOT_FOUND"))
       ELSE IF profile.user_id # user
       THEN Outcome(d, f, s, Raised("ValidationException", "FILE_NOT_FOUND"))
       ELSE IF step_number < 1 \/ step_number > Len(profile.recording_steps)
       THEN Outcome(d, f, s, Raised("ValidationException", "INVALID_INPUT"))
       ELSE LET audio_analysis == analyze_recording_quality(sample)
                step == [profile.recording_steps[step_number] EXCEPT
                            !.duration = <<audio_analysis.duration>>,
                            !.quality_score = <<audio_analysis.quality_score>>,
                            !.completed = TRUE,
                            !.recording_url = <<StepFile(step_number)>>]
                dest == [name |-> StepFile(step_number), decodable |-> sample.decodable]
                f1 == [f EXCEPT ![pid] = {x \in @ : x.name # dest.name} \cup {dest}]
                p1 == [profile EXCEPT !.recording_steps[step_number] = step]
                p2 == [p1 EXCEPT !.completed_steps = Len(CompletedSteps(p1))]
                complete == p2.completed_steps >= p2.total_steps
                fin == mdl_finalize_voice_profile(p2, f1[pid])
                p3 == IF complete THEN fin.profile ELSE p2
                f2 == IF complete THEN [f1 EXCEPT ![pid] = fin.files] ELSE f1
            IN IF ~complete /\ p2.completed_steps + 1 > Len(p2.recording_steps)
               THEN \* recording_steps[next_step_idx] raises IndexError: the
                    \* object already changed is not saved
                    Outcome(d, f1, IF cached THEN [s EXCEPT ![pid] = p2] ELSE s,
                            Raised("SystemException", "AUDIO_PROCESSING_ERROR"))
               ELSE Outcome([d EXCEPT ![pid] = p3], f2, [s EXCEPT ![pid] = p3],
                            [statuses |-> IF complete THEN fin.statuses ELSE <<>>,
                             exc |-> "none", code |-> "none", ret |->
                                      [profile_id |-> pid,
                                       total_steps |-> p3.total_steps,
                                       current_step |-> p3.completed_steps + 1,
                                       progress_percentage |->
                                           Percentage(p3.completed_steps, p3.total_steps),
                                       next_prompt |->
                                           IF complete THEN <<>>
                                           ELSE <<p3.recording_steps[p3.completed_steps + 1].text_prompt>>]])

(* A faulty use, for comparison: the usage counter is not updated. *)
use_without_count(d, f, s, user, pid) ==
    LET profile == mdl_get_profile(d, s, pid)
    IN IF profile = None
       THEN Outcome(d, f, s, Raised("ValidationException", "FILE_NOT_FOUND"))
       ELSE IF profile.user_id # user
       THEN Outcome(d, f, s, Raised("ValidationException", "FILE_NOT_FOUND"))
       ELSE IF profile.status # "ready"
       THEN Outcome(d, f, s, Raised("ValidationException", "INVALID_INPUT"))
       ELSE IF \/ profile.voice_embedding = <<>>
               \/ ~\E x \in f[pid] : x.name = profile.voice_embedding[1]
       THEN Outcome(d, f, s, Raised("ValidationException", "FILE_NOT_FOUND"))
       ELSE Outcome(d, f, s,
                    Returned([profile_id |-> pid,
                              voice_embedding_path |-> profile.voice_embedding,
                              quality |-> profile.quality]))

mdl_use_voice_profile(d, f, s, user, pid) ==
    LET profile == mdl_get_profile(d, s, pid)
        cached == s[pid] # None
    IN IF profile = None
       THEN Outcome(d, f, s, Raised("ValidationException", "FILE_NOT_FOUND"))
       ELSE IF profile.user_id # user
       THEN Outcome(d, f, s, Raised("ValidationException", "FILE_NOT_FOUND"))
       ELSE IF profile.status # "ready"
       THEN Outcome(d, f, s, Raised("ValidationException", "INVALID_INPUT"))
       ELSE IF \/ profile.voice_embedding = <<>>
               \/ ~\E x \in f[pid] : x.name = profile.voice_embedding[1]
       THEN Outcome(d, f, s, Raised("ValidationException", "FILE_NOT_FOUND"))
       ELSE LET p1 == [profile EXCEPT !.times_used = @ + 1]
            IN Outcome([d EXCEPT ![pid] = p1], f,
                       IF cached THEN [s EXCEPT ![pid] = p1] ELSE s,
                       Returned([profile_id |-> pid,
                                 voice_embedding_path |-> p1.voice_embedding,
                                 quality |-> p1.quality]))

(* A faulty delete, for comparison: the active session is not dropped. *)
delete_keeping_session(d, f, s, user, pid) ==
    LET profile == mdl_get_profile(d, s, pid)
    IN IF profile = None
       THEN Outcome(d, f, s, Returned([deleted |-> FALSE]))
       ELSE IF profile.user_id # user
       THEN Outcome(d, f, s, Returned([deleted |-> FALSE]))
       ELSE Outcome([d EXCEPT ![pid] = None], [f EXCEPT ![pid] = {}], s,
                    Returned([deleted |-> TRUE]))

mdl_delete_voice_profile(d, f, s, user, pid) ==
    LET profile == mdl_get_profile(d, s, pid)
    IN IF profile = None
       THEN Outcome(d, f, s, Returned([deleted |-> FALSE]))
       ELSE IF profile.user_id # user
       THEN Outcome(d, f, s, Returned([deleted |-> FALSE]))
       ELSE Outcome([d EXCEPT ![pid] = None], [f EXCEPT ![pid] = {}],
                    [s EXCEPT ![pid] = None], Returned([deleted |-> TRUE]))

-----------------------------------------------------------------------------
(* The synthesis backend and the settings of one deployment.               *)
(*   safe_ctx    torch offers safe_globals / add_safe_globals              *)
(*   missing     classes the checkpoint needs beyond the preloaded         *)
(*               allowlist; a safe load names one of them per failure      *)
(*   importable  those classes can be imported                             *)
(*   safe_ok     the safe load succeeds once the allowlist is complete     *)
(*   full_ok     the load with weights_only=False succeeds                 *)
(*   trust       settings.tts_trust_checkpoints / TTS_TRUST_CHECKPOINTS    *)
(*   manager     the loaded model has a speaker_manager                    *)
(*   speakers    the keys of speaker_manager.speakers after a load         *)
(*   helpers     what each registration helper of the manager does         *)
(*   default_wav settings.tts_default_speaker_wav: unset, or a path that   *)
(*               is missing or present                                     *)
(*   default_id  settings.tts_default_speaker_id                           *)
(*   allow_fallback  settings.tts_allow_fallback_without_speaker           *)
(*   sig         what inspect.signature(tts_to_file) gives: nothing, a     *)
(*               signature with none of the canonical keywords, or one     *)
(*               with some                                                 *)
(*   respond     how tts_to_file answers each calling convention           *)

(* Bounds of the engine model: the deepest nested load the host can hold,  *)
(* the interpreter's recursion limit in frames of                          *)
(* register_speaker_from_wav, the requests in flight, the classes a        *)
(* checkpoint can miss, and the calls a request stream makes.              *)
MaxNesting == 1
RecursionLimit == 2
MaxRequests == 2
MaxMissing == 7
MaxCalls == 2

(* _initialize_sync: max_attempts *)
MaxAttempts == 6

Requests == 1..MaxRequests

ManagerFns == <<"create_speaker_from_wav", "add_speaker_from_wav", "add_speaker", "create_speaker">>

(* A helper of the speaker manager is absent, raises, returns the new id,  *)
(* registers and returns None, or returns None without registering.        *)
HelperKinds == {"absent", "raises", "returns_id", "registers", "returns_none"}

Strategies == <<"keywords_from_signature", "preferred_keywords", "retry_with_resolved_speaker",
                "positional_text_file_lang", "positional_text_file_plus_speaker_kw">>

(* tts_to_file returns, raises the multi-speaker complaint, or raises      *)
(* anything else                                                           *)
Answers == {"ok", "NoSpeaker", "Error"}

NoHelpers == [n \in 1..4 |-> "absent"]

(* Python's None where a string is expected (a speaker id, a path, an     *)
(* error code)                                                             *)
Nil == "None"

(* the identity a registration gives the reference audio *)
RefSpeaker == "ref"

Append1(seq, x) == IF \E i \in 1..Len(seq) : seq[i] = x THEN seq ELSE Append(seq, x)

(* XTTSTTSEngine.__init__; constructed and full_attempts count the models  *)
(* built by TTS(...) and the loads tried with weights_only=False;          *)
(* allowlist counts the classes added to _safe_classes; registered counts  *)
(* the calls of a speaker_manager helper that returned; frames counts the  *)
(* frames of register_speaker_from_wav that went on to probe the           *)
(* engine-level names.                                                     *)
XTTSTTSEngine ==
    [initialized |-> FALSE, model |-> None, allowlist |-> 0,
     constructed |-> 0, full_attempts |-> 0, registered |-> 0, frames |-> 0]

EngineResult(e, r) == [e |-> e, res |-> r]

Model(b) == [speakers |-> b.speakers]

RECURSIVE call_managers(_, _, _)

(* _call_manager without its try/except: a helper that raises ends the     *)
(* registration                                                            *)
call_managers_uncaught(e, b, i) ==
    IF i <= Len(ManagerFns) /\ b.helpers[i] = "raises"
    THEN EngineResult(e, Raised("Exception", "none"))
    ELSE IF i > Len(ManagerFns) THEN EngineResult(e, Returned(Nil))
    ELSE call_managers(e, b, i + 1)

(* speaker_manager helpers tried in order by _call_manager: the first      *)
(* truthy id wins; every exception is swallowed.                           *)
call_managers(e, b, i) ==
    IF i > Len(ManagerFns) THEN EngineResult(e, Returned(Nil))
    ELSE LET kind == b.helpers[i]
             sp == e.model.speakers
             done == [e EXCEPT !.registered = e.registered + 1]
         IN CASE kind = "returns_id" ->
                   EngineResult([done EXCEPT !.model.speakers = Append1(sp, RefSpeaker)], Returned(RefSpeaker))
              [] kind = "registers" ->
                   EngineResult([done EXCEPT !.model.speakers = Append1(sp, RefSpeaker)],
                                Returned(Append1(sp, RefSpeaker)[Len(Append1(sp, RefSpeaker))]))
              [] kind = "returns_none" /\ sp # <<>> ->
                   EngineResult(done, Returned(sp[Len(sp)]))
              [] OTHER -> call_managers(IF kind = "returns_none" THEN done ELSE e, b, i + 1)

manager_phase(e, b) ==
    IF e.model = None \/ ~b.manager
    THEN EngineResult(e, Returned(Nil))
    ELSE call_managers(e, b, 1)

RECURSIVE initialize_sync(_, _, _)

(* register_speaker_from_wav once the path exists and the engine is        *)
(* initialized: the first engine-level name it probes is the method        *)
(* itself, so it calls itself until the interpreter's recursion limit; the *)
(* RecursionError is caught by the caller's frame, which goes on to the    *)
(* speaker manager, and every frame above returns what it was handed.      *)
returned_or_managers(inner, b) ==
    IF inner.res.exc = "none" THEN inner ELSE manager_phase(inner.e, b)

RECURSIVE register_frames(_, _, _)
register_frames(e, b, frame) ==
    IF frame > RecursionLimit
    THEN EngineResult(e, Raised("RecursionError", "none"))
    ELSE returned_or_managers(
             register_frames([e EXCEPT !.frames = e.frames + 1], b, frame + 1), b)

(* initialize() after _initialize_sync: the flag is set only now *)
initialized_after(sync) ==
    IF sync.res.exc = "none"
    THEN EngineResult([sync.e EXCEPT !.initialized = TRUE], Returned(None))
    ELSE EngineResult(sync.e, Raised("ModelLoadError", "none"))

initialize(e, b, depth) ==
    IF e.initialized THEN EngineResult(e, Returned(None))
    ELSE initialized_after(initialize_sync(e, b, depth))

registered_after(init, b) ==
    IF init.res.exc # "none" THEN init ELSE register_frames(init.e, b, 1)

register_speaker_from_wav(e, b, wav_exists, depth) ==
    IF ~wav_exists THEN EngineResult(e, Returned(Nil))
    ELSE registered_after(initialize(e, b, depth), b)

(* the auto-registration of settings.tts_default_speaker_wav after a load; *)
(* whatever it raises is logged and dropped                                *)
auto_register_default(e, b, depth) ==
    IF b.manager /\ e.model.speakers = <<>> /\ b.default_wav # "unset"
    THEN register_speaker_from_wav(e, b, b.default_wav = "present", depth + 1).e
    ELSE e

(* TTS(model_name) under the safe-globals allowlist; a load nested deeper  *)
(* than the host can hold fails for lack of memory                         *)
construct_safe(e, b, depth) ==
    IF depth > MaxNesting THEN "error"
    ELSE IF e.allowlist < b.missing THEN "unsupported_global"
    ELSE IF b.safe_ok THEN "ok" ELSE "error"

(* TTS(model_name) with torch.load forced to weights_only=False *)
construct_full(e, b, depth) ==
    IF depth > MaxNesting THEN "error"
    ELSE IF b.full_ok THEN "ok" ELSE "error"

Loaded(e, b) ==
    [e EXCEPT !.model = Model(b), !.constructed = e.constructed + 1]

(* seconds slept after the failed attempt: base_backoff * 2 ** (attempt - 1) *)
backoff(attempt) == 2 ^ (attempt - 1)

slept_before(wait, later) == [later EXCEPT !.slept = <<wait>> \o @]

RECURSIVE safe_load(_, _, _, _)

(* the retry loop going on after a failed attempt whatever its error named *)
safe_load_regardless(e, b, attempt, depth) ==
    IF attempt > MaxAttempts
    THEN [e |-> e, loaded |-> FALSE, attempts |-> attempt - 1, slept |-> <<>>]
    ELSE IF construct_safe(e, b, depth) = "ok"
    THEN [e |-> Loaded(e, b), loaded |-> TRUE, attempts |-> attempt, slept |-> <<>>]
    ELSE slept_before(backoff(attempt),
                      safe_load([e EXCEPT !.allowlist = IF b.importable THEN e.allowlist + 1
                                                         ELSE e.allowlist],
                                b, attempt + 1, depth))

(* the safe-load retry loop up to the construction that succeeds; result:  *)
(* the engine, whether it loaded, the attempts made and the waits between  *)
safe_load(e, b, attempt, depth) ==
    IF attempt > MaxAttempts
    THEN [e |-> e, loaded |-> FALSE, attempts |-> attempt - 1, slept |-> <<>>]
    ELSE CASE construct_safe(e, b, depth) = "ok" ->
                 [e |-> Loaded(e, b), loaded |-> TRUE, attempts |-> attempt, slept |-> <<>>]
           [] construct_safe(e, b, depth) = "unsupported_global" /\ b.importable ->
                 slept_before(backoff(attempt),
                              safe_load([e EXCEPT !.allowlist = e.allowlist + 1], b, attempt + 1, depth))
           [] OTHER -> [e |-> e, loaded |-> FALSE, attempts |-> attempt, slept |-> <<>>]

(* the fallback without the check of trust_checkpoint *)
full_load_untrusted(e, b, depth) ==
    IF construct_full(e, b, depth) = "ok"
    THEN [e |-> Loaded([e EXCEPT !.full_attempts = e.full_attempts + 1], b), loaded |-> TRUE, exc |-> "none"]
    ELSE [e |-> [e EXCEPT !.full_attempts = e.full_attempts + 1], loaded |-> FALSE, exc |-> "Exception"]

(* the fallback: refused unless the checkpoint is trusted *)
full_load(e, b, depth) ==
    IF ~b.trust THEN [e |-> e, loaded |-> FALSE, exc |-> "ModelLoadError"]
    ELSE IF construct_full(e, b, depth) = "ok"
    THEN [e |-> Loaded([e EXCEPT !.full_attempts = e.full_attempts + 1], b), loaded |-> TRUE, exc |-> "none"]
    ELSE [e |-> [e EXCEPT !.full_attempts = e.full_attempts + 1], loaded |-> FALSE, exc |-> "Exception"]

(* the model is built by the safe load or else by the fallback *)
load_model(safe, b, depth) ==
    IF safe.loaded THEN [e |-> safe.e, loaded |-> TRUE, exc |-> "none"]
    ELSE full_load(safe.e, b, depth)

(* both loads end with the auto-registration of the default speaker *)
loaded_after(built, b, depth) ==
    IF built.loaded
    THEN EngineResult(auto_register_default(built.e, b, depth), Returned(None))
    ELSE EngineResult(built.e, Raised(built.exc, "none"))

initialize_sync(e, b, depth) ==
    loaded_after(load_model(IF b.safe_ctx THEN safe_load(e, b, 1, depth)
                            ELSE [e |-> e, loaded |-> FALSE, attempts |-> 0, slept |-> <<>>],
                            b, depth), b, depth)

-----------------------------------------------------------------------------
(* _invoke_tts_to_file.  attempts is the list of strategies it appended,   *)
(* calls the speaker each call of tts_to_file was given (Nil: none),      *)
(* named the strategies its error message lists, cause the exception the   *)
(* error is raised from.                                                   *)

Invocation(e, r, attempts, calls, named, cause) ==
    [e |-> e, res |-> r, attempts |-> attempts, calls |-> calls, named |-> named, cause |-> cause]

Answer(b, i) == b.respond[i]

(* the first key of speaker_manager.speakers, if the model has any *)
first_registered(e, b) ==
    IF b.manager /\ e.model.speakers # <<>> THEN e.model.speakers[1] ELSE Nil

(* the retry once the model has asked for a speaker: a registration of    *)
(* speaker_wav, else the first registered speaker                          *)
retry_with_resolved_speaker(reg, b, attempts, calls) ==
    LET from_wav == IF reg.res.exc = "none" THEN reg.res.ret ELSE Nil
        resolved == IF from_wav # Nil THEN from_wav
                    ELSE IF reg.e.model = None THEN Nil ELSE first_registered(reg.e, b)
    IN IF resolved # Nil
       THEN IF Answer(b, 3) = "ok"
            THEN Invocation(reg.e, Returned(3), Append(attempts, 3), Append(calls, resolved), <<>>, 0)
            ELSE Invocation(reg.e, Raised("AudioProcessingError", "no_speaker_resolved"),
                            Append(attempts, 3), Append(calls, resolved), <<>>, 3)
       ELSE Invocation(reg.e, Raised("AudioProcessingError", "no_speaker_resolved"),
                       attempts, calls, <<>>, 2)

(* the positional fallbacks and the aggregated error *)
positional_fallbacks(e, b, attempts, calls) ==
    LET a4 == Append(attempts, 4)
        c4 == Append(calls, Nil)
        a5 == Append(a4, 5)
        c5 == Append(c4, Nil)
    IN IF Answer(b, 4) = "ok" THEN Invocation(e, Returned(4), a4, c4, <<>>, 0)
       ELSE IF Answer(b, 5) = "ok" THEN Invocation(e, Returned(5), a5, c5, <<>>, 0)
       ELSE Invocation(e, Raised("AudioProcessingError", "aggregated"), a5, c5, a5, 5)

invoke_tts_to_file(e, b, speaker_wav, speaker) ==
    IF e.model = None
    THEN Invocation(e, Raised("AudioProcessingError", "not_loaded"), <<>>, <<>>, <<>>, 0)
    ELSE
    LET useA == b.sig = "canonical"
        a1 == IF useA THEN <<1>> ELSE <<>>
        c1 == IF useA THEN <<speaker>> ELSE <<>>
        a2 == Append(a1, 2)
        c2 == Append(c1, speaker)
    IN IF useA /\ Answer(b, 1) = "ok" THEN Invocation(e, Returned(1), a1, c1, <<>>, 0)
       ELSE IF Answer(b, 2) = "ok" THEN Invocation(e, Returned(2), a2, c2, <<>>, 0)
       ELSE IF Answer(b, 2) = "NoSpeaker"
       THEN retry_with_resolved_speaker(
                IF speaker_wav # Nil
                THEN register_speaker_from_wav(e, b, speaker_wav = "present", 0)
                ELSE EngineResult(e, Returned(Nil)), b, a2, c2)
       ELSE positional_fallbacks(e, b, a2, c2)

-----------------------------------------------------------------------------
(* XTTSTTSEngine.synthesize and clone_voice.  identity is the speaker the  *)
(* call settled on (Nil: none).                                           *)

EngineCall(e, r, calls, identity) == [e |-> e, res |-> r, calls |-> calls, identity |-> identity]

(* the keys synthesize reads off self._model.speaker_manager *)
speaker_keys(e, b) == IF b.manager THEN e.model.speakers ELSE <<>>

invoked(inv, chosen, wrapped) ==
    IF inv.res.exc = "none"
    THEN EngineCall(inv.e, Returned([success |-> TRUE, speaker |-> chosen]), inv.calls, chosen)
    ELSE IF wrapped THEN EngineCall(inv.e, Raised("AudioProcessingError", "fallback_failed"), inv.calls, chosen)
    ELSE EngineCall(inv.e, inv.res, inv.calls, chosen)

(* synthesize without the strict policy: it always goes on to the call *)
synthesize_always_invoking(init, b, speaker) ==
    LET e == init.e
        keys == speaker_keys(e, b)
        chosen == IF speaker # Nil THEN speaker
                  ELSE IF b.default_id # Nil THEN b.default_id
                  ELSE IF keys # <<>> THEN keys[1] ELSE Nil
    IN IF init.res.exc # "none" THEN EngineCall(e, init.res, <<>>, Nil)
       ELSE IF e.model = None
       THEN EngineCall(e, Raised("AudioProcessingError", "not_loaded"), <<>>, Nil)
       ELSE invoked(invoke_tts_to_file(e, b, Nil, chosen), chosen, chosen = Nil)

(* A faulty policy, for comparison: the configured default speaker id is   *)
(* preferred to the explicit speaker.                                      *)
synthesize_preferring_default(init, b, speaker) ==
    LET e == init.e
        keys == speaker_keys(e, b)
        chosen == IF b.default_id # Nil THEN b.default_id
                  ELSE IF speaker # Nil THEN speaker
                  ELSE IF keys # <<>> THEN keys[1] ELSE Nil
    IN IF init.res.exc # "none" THEN EngineCall(e, init.res, <<>>, Nil)
       ELSE IF e.model = None
       THEN EngineCall(e, Raised("AudioProcessingError", "not_loaded"), <<>>, Nil)
       ELSE IF chosen = Nil /\ ~b.allow_fallback
       THEN EngineCall(e, Raised("AudioProcessingError", "speaker_required"), <<>>, Nil)
       ELSE invoked(invoke_tts_to_file(e, b, Nil, chosen), chosen, chosen = Nil)

(* synthesize once initialize() has returned or raised *)
synthesize_after(init, b, speaker) ==
    LET e == init.e
        keys == speaker_keys(e, b)
        chosen == IF speaker # Nil THEN speaker
                  ELSE IF b.default_id # Nil THEN b.default_id
                  ELSE IF keys # <<>> THEN keys[1] ELSE Nil
    IN IF init.res.exc # "none" THEN EngineCall(e, init.res, <<>>, Nil)
       ELSE IF e.model = None
       THEN EngineCall(e, Raised("AudioProcessingError", "not_loaded"), <<>>, Nil)
       ELSE IF chosen = Nil /\ ~b.allow_fallback
       THEN EngineCall(e, Raised("AudioProcessingError", "speaker_required"), <<>>, Nil)
       ELSE invoked(invoke_tts_to_file(e, b, Nil, chosen), chosen, chosen = Nil)

synthesize(e, b, speaker) == synthesize_after(initialize(e, b, 0), b, speaker)

(* clone_voice without its check of the registration: with no speaker id  *)
(* it hands the reference itself to the call                               *)
cloned_without_identity(reg, b) ==
    IF reg.res.exc # "none"
    THEN EngineCall(reg.e, Raised("AudioProcessingError", "clone_failed"), <<>>, Nil)
    ELSE IF reg.res.ret = Nil
    THEN invoked(invoke_tts_to_file(reg.e, b, "present", Nil), Nil, FALSE)
    ELSE invoked(invoke_tts_to_file(reg.e, b, Nil, reg.res.ret), reg.res.ret, FALSE)

(* clone_voice once the reference is registered *)
cloned_with(reg, b) ==
    IF reg.res.exc # "none"
    THEN EngineCall(reg.e, Raised("AudioProcessingError", "clone_failed"), <<>>, Nil)
    ELSE IF reg.res.ret = Nil
    THEN EngineCall(reg.e, Raised("AudioProcessingError", "registration_failed"), <<>>, Nil)
    ELSE invoked(invoke_tts_to_file(reg.e, b, Nil, reg.res.ret), reg.res.ret, FALSE)

(* clone_voice once initialize() has returned or raised *)
clone_voice_after(init, b, reference_exists) ==
    IF init.res.exc # "none" THEN EngineCall(init.e, init.res, <<>>, Nil)
    ELSE IF init.e.model = None
    THEN EngineCall(init.e, Raised("AudioProcessingError", "not_loaded"), <<>>, Nil)
    ELSE IF ~reference_exists
    THEN EngineCall(init.e, Raised("AudioProcessingError", "reference_not_found"), <<>>, Nil)
    ELSE cloned_with(register_speaker_from_wav(init.e, b, TRUE, 0), b)

clone_voice(e, b, reference_exists) == clone_voice_after(initialize(e, b, 0), b, reference_exists)

-----------------------------------------------------------------------------
(* VoiceCloningService: the speaker resolver and the two entry points.     *)

(* _try_register_speaker: of the engine-level names only                   *)
(* register_speaker_from_wav exists on XTTSTTSEngine; its result is        *)
(* returned as it is, its exception is logged and the speaker manager of   *)
(* engine._model is probed instead.                                        *)
try_register_speaker(e, b, reference_exists) ==
    IF ~reference_exists THEN EngineResult(e, Returned(Nil))
    ELSE returned_or_managers(register_speaker_from_wav(e, b, TRUE, 0), b)

(* exception classes the collaborators can raise: the subclasses of        *)
(* VoiceCloningException the handlers name, another subclass of it, and    *)
(* exceptions outside that hierarchy                                       *)
VoiceCloningExceptions ==
    {"ValidationError", "ModelLoadError", "AudioProcessingError", "StorageError", "VoiceCloningException"}
Exceptions == VoiceCloningExceptions \cup {"KeyError", "OSError"}

(* TTSResponse / VoiceCloningResponse *)
Response(success, path, message, error_code) ==
    [success |-> success, audio_file_path |-> path, message |-> message, error_code |-> error_code]

OutputPath == "output.wav"

ErrorCodes == {"VALIDATION_ERROR", "MODEL_LOAD_ERROR", "AUDIO_PROCESSING_ERROR",
               "VOICE_CLONING_ERROR", "INTERNAL_ERROR"}

(* the except clauses of both entry points, in their order *)
error_code_of(exc) ==
    CASE exc = "ValidationError" -> "VALIDATION_ERROR"
      [] exc = "ModelLoadError" -> "MODEL_LOAD_ERROR"
      [] exc = "AudioProcessingError" -> "AUDIO_PROCESSING_ERROR"
      [] exc \in VoiceCloningExceptions -> "VOICE_CLONING_ERROR"
      [] OTHER -> "INTERNAL_ERROR"

Reply(raised, response) == [raised |-> raised, response |-> response]

NoReply == Response(FALSE, Nil, Nil, Nil)

(* the handlers without the last one, "except Exception": an exception     *)
(* outside the VoiceCloningException hierarchy leaves the entry point      *)
handled_without_catch_all(exc) ==
    IF exc \in VoiceCloningExceptions
    THEN Reply("none", Response(FALSE, Nil, exc, error_code_of(exc)))
    ELSE Reply(exc, NoReply)

(* an exception raised inside the try block of an entry point: the         *)
(* message of the response is the exception's text                         *)
handled(exc) == Reply("none", Response(FALSE, Nil, exc, error_code_of(exc)))

ServiceCall(e, reply, calls, identity) ==
    [e |-> e, raised |-> reply.raised, response |-> reply.response, calls |-> calls, identity |-> identity]

Failure(e, exc) == ServiceCall(e, handled(exc), <<>>, Nil)

(* what an engine call becomes at the boundary *)
finish(c) ==
    IF c.res.exc = "none"
    THEN ServiceCall(c.e, Reply("none", Response(TRUE, OutputPath, "completed", Nil)), c.calls, c.identity)
    ELSE ServiceCall(c.e, handled(c.res.exc), c.calls, c.identity)

(* synthesize_speech: text is "empty", "blank" or "words"; reference is    *)
(* Nil or whether request.speaker_wav_path exists; makedirs is what        *)
(* os.makedirs of the output directory does ("ok" or an exception).        *)
synthesize_speech(e, b, text, reference, makedirs) ==
    IF text \in {"empty", "blank"}
    THEN ServiceCall(e, Reply("none", Response(FALSE, Nil, "Text for synthesis is empty", "VALIDATION_ERROR")),
                     <<>>, Nil)
    ELSE IF makedirs # "ok" THEN Failure(e, makedirs)
    ELSE IF reference = Nil THEN finish(synthesize(e, b, Nil))
    ELSE IF reference = "missing" THEN Failure(e, "ValidationError")
    ELSE finish(clone_voice(try_register_speaker(e, b, TRUE).e, b, TRUE))

(* VoiceCloningService.clone_voice: stored is what                         *)
(* file_manager.get_file_path gives (Nil, whether the path it names       *)
(* exists, or an exception), valid what audio_processor.validate_audio     *)
(* gives ("true", "false" or an exception).                                      *)
service_clone_voice(e, b, stored, valid, makedirs) ==
    IF stored \in Exceptions THEN Failure(e, stored)
    ELSE IF stored = Nil THEN Failure(e, "ValidationError")
    ELSE IF valid \in Exceptions THEN Failure(e, valid)
    ELSE IF valid = "false" THEN Failure(e, "ValidationError")
    ELSE IF makedirs # "ok" THEN Failure(e, makedirs)
    ELSE finish(clone_voice(try_register_speaker(e, b, stored = "present").e, b, stored = "present"))

-----------------------------------------------------------------------------
(* Deployments the engine is run on.                                       *)

Deployment(load, voices, settings, backend) ==
    [safe_ctx |-> load.safe_ctx, missing |-> load.missing, importable |-> load.importable,
     safe_ok |-> load.safe_ok, full_ok |-> load.full_ok, trust |-> load.trust,
     manager |-> voices.manager, speakers |-> voices.speakers, helpers |-> voices.helpers,
     default_wav |-> voices.default_wav,
     default_id |-> settings.default_id, allow_fallback |-> settings.allow_fallback,
     sig |-> backend.sig, respond |-> backend.respond]

Load(ctx, missing, importable, safe_ok, full_ok, trust) ==
    [safe_ctx |-> ctx, missing |-> missing, importable |-> importable,
     safe_ok |-> safe_ok, full_ok |-> full_ok, trust |-> trust]

Voices(manager, speakers, helpers, default_wav) ==
    [manager |-> manager, speakers |-> speakers, helpers |-> helpers, default_wav |-> default_wav]

Settings(default_id, allow_fallback) == [default_id |-> default_id, allow_fallback |-> allow_fallback]

Backend(sig, respond) == [sig |-> sig, respond |-> respond]

Sigs == {"unavailable", "no_canonical", "canonical"}
Responds == [1..5 -> Answers]

(* the checkpoint loads safely at once; the model registers speakers       *)
SafeLoad == Load(TRUE, 0, TRUE, TRUE, TRUE, FALSE)
Loads ==
    { SafeLoad,
      Load(TRUE, 1, TRUE, TRUE, TRUE, FALSE),           \* one class to allowlist
      Load(TRUE, MaxMissing, TRUE, TRUE, TRUE, FALSE),  \* more classes than attempts
      Load(TRUE, 1, FALSE, TRUE, TRUE, FALSE),          \* a class that cannot be imported
      Load(TRUE, 1, FALSE, TRUE, TRUE, TRUE),           \* the same, checkpoint trusted
      Load(TRUE, 0, TRUE, FALSE, FALSE, TRUE),          \* every load fails, trusted
      Load(FALSE, 0, TRUE, TRUE, TRUE, FALSE),          \* no safe loading, not trusted
      Load(FALSE, 0, TRUE, TRUE, TRUE, TRUE) }          \* no safe loading, trusted

Registers == Voices(TRUE, <<>>, <<"absent", "raises", "returns_id", "absent">>, "unset")
(* every helper the manager has raises *)
Unregistering == Voices(TRUE, <<>>, <<"raises", "absent", "raises", "absent">>, "unset")
VoiceSetups ==
    { Registers,
      Voices(TRUE, <<>>, NoHelpers, "unset"),
      Unregistering,
      Voices(TRUE, <<"s0">>, <<"absent", "absent", "absent", "returns_none">>, "unset"),
      Voices(TRUE, <<>>, <<"registers", "absent", "absent", "absent">>, "present"),
      Voices(TRUE, <<>>, NoHelpers, "missing"),
      Voices(FALSE, <<>>, NoHelpers, "unset") }

Strict == Settings(Nil, FALSE)
SettingsChoices == {Strict, Settings(Nil, TRUE), Settings("cfg", FALSE)}

Answering == Backend("canonical", <<"ok", "ok", "ok", "ok", "ok">>)
Backends ==
    { Answering,
      Backend("canonical", <<"Error", "NoSpeaker", "ok", "ok", "ok">>),
      Backend("canonical", <<"NoSpeaker", "NoSpeaker", "Error", "ok", "ok">>),
      Backend("unavailable", <<"ok", "Error", "ok", "Error", "ok">>),
      Backend("no_canonical", <<"Error", "Error", "Error", "Error", "Error">>) }

DefaultDeployment == Deployment(SafeLoad, Registers, Strict, Answering)

(* one choice varied at a time around the default deployment, and the      *)
(* loads with the auto-registered default speaker                          *)
Deployments ==
    {Deployment(l, Registers, Strict, Answering) : l \in Loads}
    \cup {Deployment(SafeLoad, v, s, Answering) : v \in VoiceSetups, s \in SettingsChoices}
    \cup {Deployment(SafeLoad, Registers, s, k) : s \in SettingsChoices, k \in Backends}
    \cup {Deployment(l, v, Strict, Answering) : l \in Loads, v \in {x \in VoiceSetups : x.default_wav = "present"}}
    \cup {Deployment(l, Unregistering, Strict, Answering) : l \in Loads}

(* A request on the engine is idle, has found _initialized unset and       *)
(* handed _initialize_sync to a worker thread ("loading"), or waits to be  *)
(* resumed with what the thread raised ("loaded").                         *)
Idle == [pc |-> "idle", op |-> "none", arg |-> Nil, exc |-> "none"]

NoResponse == [success |-> FALSE, audio_file_path |-> Nil, message |-> Nil, error_code |-> Nil]

CallOf(op, arg, exc, kind, identity, calls, response) ==
    [op |-> op, arg |-> arg, exc |-> exc, kind |-> kind, identity |-> identity,
     calls |-> calls, response |-> response]

NoCall == CallOf("none", Nil, "none", "none", Nil, <<>>, NoResponse)


-----------------------------------------------------------------------------
(* The trusted fallback of _initialize_sync and the module global          *)
(* torch.load it replaces.  get_tts_engine() builds a new XTTSTTSEngine    *)
(* for every request, and initialize() runs _initialize_sync in a worker   *)
(* thread of its own, so the fallbacks of two engine instances can         *)
(* interleave.  torch_load is the function the global names: the original, *)
(* or the wrapper a worker made over the function it had read, written as  *)
(* the list of the workers whose wrappers are stacked on the original.     *)

MaxLoads == 3

Original == <<>>

(* _torch_load_force_no_weights_only, closed over orig_torch_load *)
torch_load_force_no_weights_only(t, orig_torch_load) == <<t>> \o orig_torch_load

(* a worker thread outside the fallback; orig_torch_load is its local      *)
(* variable, ended how its last load ended, loads the loads it has begun   *)
Waiting == [pc |-> "idle", orig_torch_load |-> Original, ended |-> "none", loads |-> 0]

(* the fallback of a load that succeeded or failed has returned or raised  *)
Completed(w) == w.pc = "idle" /\ w.ended \in {"loaded", "failed"}
-----------------------------------------------------------------------------
(* The upload store (app/services/file_manager.py).  A file name is the    *)
(* sequence of its pieces, "test.wav" being <<"test", ".", "wav">>, so     *)
(* that a name with the dot and a name without it are different names.     *)

FileName(stem, suffix) == IF suffix = Nil THEN <<stem>> ELSE <<stem, ".", suffix>>

(* os.path.splitext(name)[1]: the last dot and what follows it, or "" *)
splitext_ext(name) == IF Len(name) >= 3 THEN SubSeq(name, Len(name) - 1, Len(name)) ELSE <<>>

(* str.lower() on the suffixes uploaded here *)
lower(piece) == IF piece = "WAV" THEN "wav" ELSE piece

lower_ext(ext) == [i \in 1..Len(ext) |-> lower(ext[i])]

(* settings.allowed_audio_formats: the names of the formats, without dots *)
ALLOWED_AUDIO_FORMATS == <<<<"wav">>, <<"mp3">>, <<"ogg">>, <<"flac">>, <<"m4a">>>>

InList(x, list) == \E i \in 1..Len(list) : list[i] = x

UploadFile(filename, size) == [filename |-> filename, size |-> size]

(* FileManager._validate_upload: the exception it raises, "none" if none.  *)
(* Settings defines neither max_file_size nor MAX_FILE_SIZE, so reading    *)
(* the size limit raises AttributeError from Settings.__getattr__.         *)
validate_upload(file) ==
    IF file.filename = <<>> THEN "ValidationError"
    ELSE IF ~InList(lower_ext(splitext_ext(file.filename)), ALLOWED_AUDIO_FORMATS)
    THEN "ValidationError"
    ELSE "AttributeError"

StoreResult(dir, exc, id, path, ok) == [dir |-> dir, exc |-> exc, id |-> id, path |-> path, ok |-> ok]

(* FileManager.save_upload: whatever is raised becomes ValidationError; the *)
(* file is written as <upload_dir>/<file_id><extension>                     *)
save_upload(dir, file_id, file) ==
    IF validate_upload(file) # "none"
    THEN StoreResult(dir, "ValidationError", Nil, <<>>, FALSE)
    ELSE StoreResult(dir \cup {<<file_id>> \o lower_ext(splitext_ext(file.filename))},
                     "none", file_id, <<>>, TRUE)

(* FileManager.get_file_path: <upload_dir>/<file_id><ext> for the first    *)
(* allowed format that exists, None (the empty path) otherwise             *)
RECURSIVE path_from(_, _, _)
path_from(dir, file_id, i) ==
    IF i > Len(ALLOWED_AUDIO_FORMATS) THEN <<>>
    ELSE IF (<<file_id>> \o ALLOWED_AUDIO_FORMATS[i]) \in dir
    THEN <<file_id>> \o ALLOWED_AUDIO_FORMATS[i]
    ELSE path_from(dir, file_id, i + 1)

get_file_path(dir, file_id) ==
    StoreResult(dir, "none", file_id, path_from(dir, file_id, 1), path_from(dir, file_id, 1) # <<>>)

(* FileManager.delete_file *)
delete_file(dir, file_id) ==
    IF path_from(dir, file_id, 1) # <<>> /\ path_from(dir, file_id, 1) \in dir
    THEN StoreResult(dir \ {path_from(dir, file_id, 1)}, "none", file_id, <<>>, TRUE)
    ELSE StoreResult(dir, "none", file_id, <<>>, FALSE)

FileIds == {"f1", "f2"}
Uploads ==
    {UploadFile(n, s) : n \in {<<>>, FileName("test", "wav"), FileName("TEST", "WAV"),
                               FileName("notes", "txt"), FileName("wav", Nil)},
                        s \in {"small", "oversized"}}

(* what may lie in the upload directory: files named as save_upload names  *)
(* them and files named as get_file_path looks for them                    *)
StoredNames == {<<id, ".", "wav">> : id \in FileIds} \cup {<<id, "wav">> : id \in FileIds}

NoStoreCall == [op |-> "none", res |-> StoreResult({}, "none", Nil, <<>>, FALSE)]

-----------------------------------------------------------------------------
(* The background task manager (app/core/background_tasks.py).  A task is  *)
(* pending until the event loop first runs it, then sleeping in its loop;  *)
(* cancel() leaves it cancelling until the loop delivers CancelledError,   *)
(* which ends it.                                                          *)

MaxManagerCalls == 3

Task(name) == [name |-> name, state |-> "pending"]

BackgroundTasks == [running |-> FALSE, tasks |-> <<>>]

(* BackgroundTasks.start: it has no await, so it runs in one piece *)
start(m) ==
    IF m.running THEN m
    ELSE [running |-> TRUE,
          tasks |-> m.tasks \o <<Task("periodic_cleanup"), Task("periodic_health_check")>>]

(* task.cancel() *)
cancel(m, i) ==
    [m EXCEPT !.tasks[i].state = IF @ = "done" THEN "done" ELSE "cancelling"]

(* BackgroundTasks.stop up to its first await: nothing when not running,   *)
(* else the flag is cleared and the first task cancelled                   *)
stop_begins(m) ==
    IF ~m.running THEN m
    ELSE IF m.tasks = <<>> THEN [m EXCEPT !.running = FALSE]
    ELSE cancel([m EXCEPT !.running = FALSE], 1)

(* stop that goes on to the next task but never clears the list *)
stop_without_clear(m, i) ==
    IF i < Len(m.tasks) THEN cancel(m, i + 1) ELSE m

(* stop after the task it awaited has ended: the next task is cancelled,   *)
(* or the list is cleared                                                  *)
stop_resumes(m, i) ==
    IF i < Len(m.tasks) THEN cancel(m, i + 1)
    ELSE [m EXCEPT !.tasks = <<>>]

(* cleanup_old_files: the files older than max_age_hours are removed *)
cleanup_old_files(dir, old) == dir \ old

(* no call in flight; last is the call that returned last, calls and        *)
(* cleared count the calls made and the times stop cleared the list,       *)
(* overlapped the calls of start made while stop was suspended             *)
Calm == [pc |-> "idle", at |-> 0, last |-> "none", calls |-> 0, cleared |-> 0, overlapped |-> 0]

-----------------------------------------------------------------------------
(* The rate limiter (app/core/rate_limiting.py) and its middleware         *)
(* (app/middleware/rate_limit_middleware.py).  Time is in seconds; a       *)
(* bucket is the deque of the times of the requests it allowed.            *)

MaxClockSteps == 2
MaxQueued == 1

UploadLimit == 10
SynthesizeLimit == 100
CloneLimit == 50
DefaultLimit == 200
Window == 3600
DequeMaxLen == 100

EndpointTypes == {"upload", "synthesize", "clone", "default"}

limits(endpoint) ==
    CASE endpoint = "upload" -> [requests |-> UploadLimit, window |-> Window]
      [] endpoint = "synthesize" -> [requests |-> SynthesizeLimit, window |-> Window]
      [] endpoint = "clone" -> [requests |-> CloneLimit, window |-> Window]
      [] OTHER -> [requests |-> DefaultLimit, window |-> Window]

(* a request: its path as the sequence of its words ("/api/v1/upload-audio" *)
(* being <<"api", "v1", "upload", "audio">>) and the headers that name its *)
(* client                                                                  *)
HttpRequest(path, api_key, forwarded_for, real_ip, host) ==
    [path |-> path, api_key |-> api_key, forwarded_for |-> forwarded_for,
     real_ip |-> real_ip, host |-> host]

(* RateLimitMiddleware.get_client_id: the API key, else the first address  *)
(* of X-Forwarded-For, else X-Real-IP, else the peer, else "unknown"       *)
get_client_id(request) ==
    IF request.api_key # Nil THEN <<"api", request.api_key>>
    ELSE IF request.forwarded_for # Nil THEN <<"ip", request.forwarded_for>>
    ELSE IF request.real_ip # Nil THEN <<"ip", request.real_ip>>
    ELSE IF request.host # Nil THEN <<"ip", request.host>>
    ELSE <<"ip", "unknown">>

(* "word" in path *)
Contains(path, word) == \E i \in 1..Len(path) : path[i] = word

(* RateLimitMiddleware.get_endpoint_type *)
get_endpoint_type(path) ==
    IF Contains(path, "upload") THEN "upload"
    ELSE IF Contains(path, "synthesize") THEN "synthesize"
    ELSE IF Contains(path, "clone") THEN "clone"
    ELSE "default"

HealthPaths == {<<"health">>, <<"api", "v1", "health">>}

(* the requests left in a bucket once those older than the window are      *)
(* dropped from its front                                                  *)
RECURSIVE clean(_, _)
clean(requests, window_start) ==
    IF requests # <<>> /\ Head(requests) < window_start
    THEN clean(Tail(requests), window_start)
    ELSE requests

(* deque(maxlen=100).append *)
deque_append(requests, t) ==
    IF Len(requests) >= DequeMaxLen THEN Append(Tail(requests), t) ELSE Append(requests, t)

(* RateLimiter.check_rate_limit with cost 1: the buckets after it and its  *)
(* answer                                                                  *)
check_rate_limit(bs, client_id, endpoint, now) ==
    LET kept == clean(bs[<<client_id, endpoint>>], now - limits(endpoint).window)
    IN IF Len(kept) + 1 <= limits(endpoint).requests
       THEN [buckets |-> [bs EXCEPT ![<<client_id, endpoint>>] = deque_append(kept, now)],
             allowed |-> TRUE]
       ELSE [buckets |-> [bs EXCEPT ![<<client_id, endpoint>>] = kept], allowed |-> FALSE]

(* RateLimiter.get_rate_limit_info *)
get_rate_limit_info(bs, client_id, endpoint, now) ==
    LET kept == clean(bs[<<client_id, endpoint>>], now - limits(endpoint).window)
    IN [buckets |-> [bs EXCEPT ![<<client_id, endpoint>>] = kept],
        limit |-> limits(endpoint).requests,
        remaining |-> Max(0, limits(endpoint).requests - Len(kept)),
        reset |-> now + limits(endpoint).window,
        window |-> limits(endpoint).window]

RateLimitHeaders == {"X-RateLimit-Limit", "X-RateLimit-Remaining", "X-RateLimit-Reset"}

(* a response, or the HTTPException raised in its place, with the rate     *)
(* limit headers it carries                                                *)
HttpResponse(exc, status, headers, remaining) ==
    [exc |-> exc, status |-> status, headers |-> headers, remaining |-> remaining]

Dispatched(bs, response) == [buckets |-> bs, response |-> response]

(* the rest of dispatch once the request was allowed: the response of      *)
(* call_next with the three headers set from get_rate_limit_info; what     *)
(* call_next raises goes through                                           *)
answered(bs, info, status) ==
    IF status = "raises"
    THEN Dispatched(bs, HttpResponse("Exception", "none", {}, 0))
    ELSE Dispatched(info.buckets, HttpResponse("none", status, RateLimitHeaders, info.remaining))

(* RateLimitMiddleware.dispatch; status is what call_next answers *)
dispatch(bs, request, now, status) ==
    IF request.path \in HealthPaths
    THEN Dispatched(bs, IF status = "raises" THEN HttpResponse("Exception", "none", {}, 0)
                        ELSE HttpResponse("none", status, {}, 0))
    ELSE LET client_id == get_client_id(request)
             endpoint == get_endpoint_type(request.path)
             checked == check_rate_limit(bs, client_id, endpoint, now)
         IN IF ~checked.allowed
            THEN Dispatched(get_rate_limit_info(checked.buckets, client_id, endpoint, now).buckets,
                            HttpResponse("HTTPException", "429", RateLimitHeaders, 0))
            ELSE answered(checked.buckets,
                          get_rate_limit_info(checked.buckets, client_id, endpoint, now), status)

Caller == HttpRequest(<<>>, "k", Nil, Nil, "h")
Anonymous == HttpRequest(<<>>, Nil, Nil, Nil, "h")

Paths == {<<"api", "v1", "health">>, <<"api", "v1", "upload", "audio">>,
          <<"api", "v1", "synthesize">>, <<"api", "v1", "clone", "voice">>,
          <<"api", "v1", "profiles">>}

HttpRequests ==
    {[Caller EXCEPT !.path = p] : p \in Paths}
    \cup {[Anonymous EXCEPT !.path = <<"health">>]}

ClientIds == {get_client_id(r) : r \in {q \in HttpRequests : q.path \notin HealthPaths}}
BucketKeys == {<<c, e>> : c \in ClientIds, e \in EndpointTypes}

Statuses == {"200", "raises"}

Unanswered == HttpResponse("none", "none", {}, 0)

(* the platform when the process starts *)
PlatformStart ==
    /\ background_tasks = BackgroundTasks
    /\ control = Calm
    /\ upload_dir = {}
    /\ aged = {}
    /\ store_call = NoStoreCall
    /\ clock = 0
    /\ buckets = [k \in BucketKeys |-> <<>>]
    /\ http_response = Unanswered
    /\ torch_load = Original
    /\ workers = [t \in Requests |-> Waiting]

-----------------------------------------------------------------------------
(* The service as a state machine: one action per call.  last is the most  *)
(* recent call: the operation, the profile it named and its result.        *)
(* submitted counts the submissions of the in-order recording run          *)
(* (SpecRange), removals the times the environment emptied a profile       *)
(* directory.                                                              *)
(* Profiles do not interact (no handler reads another profile's record or  *)
(* directory), so one profile is live at a time: a session starts once the *)
(* previous profile is deleted, under a fresh id as uuid4 gives.           *)

Call(op, pid, res) == [op |-> op, pid |-> pid, res |-> res]

StartAt(d, f, s, id, user, name, total) ==
    IF impl = "services"
    THEN svc_start_recording_session(d, f, s, id, user, name, total)
    ELSE mdl_start_recording_session(d, f, s, id, user, name, total)

SubmitAt(d, f, s, user, pid, step_number, sample) ==
    IF impl = "services"
    THEN svc_submit_recording_step(d, f, s, user, pid, step_number, sample)
    ELSE mdl_submit_recording_step(d, f, s, user, pid, step_number, sample)

UseAt(d, f, s, user, pid) ==
    IF impl = "services"
    THEN svc_use_voice_profile(d, f, s, user, pid)
    ELSE mdl_use_voice_profile(d, f, s, user, pid)

DeleteAt(d, f, s, user, pid) ==
    IF impl = "services"
    THEN svc_delete_voice_profile(d, f, s, user, pid)
    ELSE mdl_delete_voice_profile(d, f, s, user, pid)

Init ==
    /\ impl \in Impls
    /\ disk = [p \in ProfileIds |-> None]
    /\ files = [p \in ProfileIds |-> {}]
    /\ active_sessions = [p \in ProfileIds |-> None]
    /\ issued = 0
    /\ submitted = 0
    /\ removals = 0
    /\ last = Call("none", 0, Returned(None))
    /\ deployment = DefaultDeployment
    /\ engine = XTTSTTSEngine
    /\ tasks = [r \in Requests |-> Idle]
    /\ begun = 0
    /\ called = NoCall
    /\ PlatformStart

Apply(o, call) ==
    /\ disk' = o.disk
    /\ files' = o.files
    /\ active_sessions' = o.sessions
    /\ last' = call
    /\ impl' = impl
    /\ UNCHANGED <<engine_vars, platform_vars>>

start_recording_session(user, name, total) ==
    /\ issued < MaxProfiles
    /\ \A p \in ProfileIds : disk[p] = None /\ active_sessions[p] = None
    /\ LET id == issued + 1
           o == StartAt(disk, files, active_sessions, id, user, name, total)
       IN /\ Apply(o, Call("start", id, o.res))
          /\ issued' = IF o.disk[id] # None THEN id ELSE issued
    /\ submitted' = 0
    /\ UNCHANGED removals

submit_recording_step(user, pid, step_number, sample) ==
    LET o == SubmitAt(disk, files, active_sessions, user, pid, step_number, sample)
    IN /\ Apply(o, Call("submit", pid, o.res))
       /\ UNCHANGED <<issued, removals>>

use_voice_profile(user, pid) ==
    LET o == UseAt(disk, files, active_sessions, user, pid)
    IN /\ o.disk[pid] # None => o.disk[pid].times_used <= MaxUses
       /\ Apply(o, Call("use", pid, o.res))
       /\ UNCHANGED <<issued, submitted, removals>>

delete_voice_profile(user, pid) ==
    LET o == DeleteAt(disk, files, active_sessions, user, pid)
    IN /\ Apply(o, Call("delete", pid, o.res))
       /\ UNCHANGED <<issued, submitted, removals>>

(* The environment: the recordings of a profile are removed from the       *)
(* storage directory behind the service's back (use_voice_profile checks   *)
(* for that with exists()).                                                *)
reference_audio_removed(pid) ==
    /\ removals < MaxRemovals
    /\ files[pid] # {}
    /\ files' = [files EXCEPT ![pid] = {}]
    /\ removals' = removals + 1
    /\ last' = Call("removed", pid, Returned(None))
    /\ UNCHANGED <<impl, disk, active_sessions, issued, submitted>>
    /\ UNCHANGED <<engine_vars, platform_vars>>

(* The owner submits any step number with any of the submitted samples; a  *)
(* stranger's submission is turned away before its step number or audio is *)
(* looked at, so one such call stands for all of them.                     *)
Next ==
    \/ \E u \in Owners, n \in ProfileNames, t \in MinTotalSteps..MaxRunSteps :
          start_recording_session(u, n, t)
    \/ \E u \in Owners, p \in ProfileIds, k \in 0..(MaxRunSteps + 1), a \in SubmittedSamples :
          submit_recording_step(u, p, k, a) /\ UNCHANGED submitted
    \/ \E u \in Users \ Owners, p \in ProfileIds :
          submit_recording_step(u, p, 1, CleanSample) /\ UNCHANGED submitted
    \/ \E u \in Users, p \in ProfileIds : use_voice_profile(u, p)
    \/ \E u \in Users, p \in ProfileIds : delete_voice_profile(u, p)
    \/ \E p \in ProfileIds : reference_audio_removed(p)

Spec == Init /\ [][Next]_vars

-----------------------------------------------------------------------------
(* The recording run over the whole configured range of total_steps        *)
(* (VoiceRecordingRequest: 5..20): a session is started and its owner      *)
(* submits the expected step with a clean sample, again and again.         *)

Profile(p) == IF impl = "services" THEN disk[p] ELSE mdl_get_profile(disk, active_sessions, p)

Owner(rec) == IF impl = "services" THEN rec.owner ELSE rec.user_id

ExpectedStep(rec) == IF impl = "services" THEN rec.current_step ELSE rec.completed_steps + 1

start_in_range ==
    \E t \in MinTotalSteps..MaxTotalSteps : start_recording_session("u1", <<"V", "A">>, t)

submit_expected_step ==
    \E p \in ProfileIds :
        /\ Profile(p) # None
        /\ submitted < Profile(p).total_steps
        /\ submit_recording_step(Owner(Profile(p)), p, ExpectedStep(Profile(p)), CleanSample)
        /\ submitted' = submitted + 1

NextRange == start_in_range \/ submit_expected_step

SpecRange == Init /\ [][NextRange]_vars

-----------------------------------------------------------------------------
(* Vocabulary of the properties *)

StepNumbers == 0..(MaxRunSteps + 1)

SubmitOutcome(u, p, k, a) == SubmitAt(disk, files, active_sessions, u, p, k, a)
UseOutcome(u, p) == UseAt(disk, files, active_sessions, u, p)
DeleteOutcome(u, p) == DeleteAt(disk, files, active_sessions, u, p)

Unchanged(o) == o.disk = disk /\ o.files = files /\ o.sessions = active_sessions

InvalidStep(res) == res.exc = "ValidationException" /\ res.code = "INVALID_INPUT"
AudioQualityPoor(res) == res.exc = "ValidationException" /\ res.code = "AUDIO_QUALITY_POOR"
NotReady(res) == res.exc = "ValidationException" /\ res.code = "INVALID_INPUT"
NotFound(res) == res.exc = "ValidationException" /\ res.code = "FILE_NOT_FOUND"

(* the gate a submission has to pass: validate_audio in the services       *)
(* variant, the analysis' suitable flag in the models variant              *)
Suitable(a) == IF impl = "services" THEN validate_audio(a)
               ELSE analyze_recording_quality(a).suitable

(* steps completed so far, as the record counts them *)
CompletedCount(rec) == IF impl = "services" THEN rec.current_step - 1 ELSE rec.completed_steps

(* the per-step completed flags of a record *)
CompletedFlags(rec) ==
    IF impl = "services"
    THEN [i \in 1..rec.total_steps |-> i < rec.current_step]
    ELSE [i \in 1..Len(rec.recording_steps) |-> rec.recording_steps[i].completed]

Recording(p) == Profile(p) # None /\ Profile(p).status = "recording"

(* C1: on a recording profile whose expected step is k, a submission by the owner
   with any other step number is rejected with the invalid-step validation error
   and changes nothing: record, active session and stored recordings stay as
   they were. *)
C1_OutOfOrderRejected ==
    \A p \in ProfileIds, k \in StepNumbers, a \in Samples :
        (Recording(p) /\ k # ExpectedStep(Profile(p)))
            => LET o == SubmitOutcome(Owner(Profile(p)), p, k, a)
               IN InvalidStep(o.res) /\ Unchanged(o)

(* C2: a submission whose audio does not pass the quality gate is rejected with
   AudioQualityPoor and leaves the completed count and the completed flags as
   they were, on disk and in the active session; so a step is completed only by
   suitable audio. *)
C2_UnsuitableRejected ==
    \A p \in ProfileIds, k \in StepNumbers, a \in Samples :
        (Recording(p) /\ k = ExpectedStep(Profile(p)) /\ ~Suitable(a))
            => LET o == SubmitOutcome(Owner(Profile(p)), p, k, a)
               IN /\ AudioQualityPoor(o.res)
                  /\ o.disk[p] = disk[p]
                  /\ o.sessions[p] = active_sessions[p]

(* the record the service works on, in a given store and cache *)
ProfileIn(d, s, p) == IF impl = "services" THEN d[p] ELSE mdl_get_profile(d, s, p)

(* the reference audio a use of the profile would hand out, <<>> if none:  *)
(* the first candidate of the profile directory (services), the recorded   *)
(* voice_embedding path if the file exists (models)                        *)
ReferenceArtifact(p) ==
    IF impl = "services" THEN svc_reference_candidate(files[p])
    ELSE IF Profile(p).voice_embedding # <<>>
            /\ \E x \in files[p] : x.name = Profile(p).voice_embedding[1]
         THEN Profile(p).voice_embedding
         ELSE <<>>

(* C3: in the recording run (the owner submits the expected step with a clean
   sample, total_steps times, for any total_steps of 5..20), once total_steps
   submissions were made the profile is ready and its reference artifact
   exists. *)
C3_RunReachesReady ==
    \A p \in ProfileIds :
        (Profile(p) # None /\ submitted = Profile(p).total_steps)
            => Profile(p).status = "ready" /\ ReferenceArtifact(p) # <<>>

(* the prompt at position i when a pool of n prompts is cycled *)
Cycled(i, n) == ((i - 1) % n) + 1

(* the prompts and the step numbers of a record *)
PromptsOf(rec) ==
    IF impl = "services" THEN rec.prompts
    ELSE [i \in 1..Len(rec.recording_steps) |-> rec.recording_steps[i].text_prompt]

StepNumbersOf(rec) ==
    IF impl = "services" THEN [i \in 1..Len(rec.prompts) |-> i]
    ELSE [i \in 1..Len(rec.recording_steps) |-> rec.recording_steps[i].step_number]

PoolSize == IF impl = "services" THEN Len(PROMPTS) ELSE Len(RECORDING_PROMPTS)

(* C4: for every total_steps t of 5..20, a start on a fresh id creates a record
   in status recording at expected step 1 with exactly t steps numbered 1..t,
   none completed, whose prompts are the pool taken in order and cycled. *)
C4_StartCreatesAllSteps ==
    \A u \in Users, t \in MinTotalSteps..MaxTotalSteps :
        issued < MaxProfiles =>
            LET id == issued + 1
                o == StartAt(disk, files, active_sessions, id, u, <<"V", "A">>, t)
                rec == ProfileIn(o.disk, o.sessions, id)
            IN /\ o.res.exc = "none"
               /\ rec # None
               /\ rec.status = "recording"
               /\ ExpectedStep(rec) = 1
               /\ rec.total_steps = t
               /\ Len(PromptsOf(rec)) = t
               /\ StepNumbersOf(rec) = [i \in 1..t |-> i]
               /\ \A i \in 1..Len(PromptsOf(rec)) : PromptsOf(rec)[i] = Cycled(i, PoolSize)
               /\ \A i \in DOMAIN CompletedFlags(rec) : ~CompletedFlags(rec)[i]
               /\ o.disk[id] = rec

-----------------------------------------------------------------------------
(* Status transitions *)

(* one step of the status along the allowed paths (the services variant    *)
(* goes from recording to ready without a processing status of its own)    *)
StatusStep(a, b) ==
    \/ a = b
    \/ a = "recording" /\ b \in {"processing", "ready"}
    \/ a = "processing" /\ b \in {"ready", "failed"}

ValidPath(seq) == \A i \in 1..(Len(seq) - 1) : StatusStep(seq[i], seq[i + 1])

(* C5: whatever submission or use is made on an existing profile, by whomever,
   the values its status takes during the call and the status it ends with
   follow recording -> processing -> ready or failed from the status it had;
   a ready or failed profile keeps its status. *)
C5_StatusTransitions ==
    \A p \in ProfileIds, u \in Users, k \in StepNumbers, a \in Samples :
        Profile(p) # None =>
            LET old == Profile(p).status
                o == SubmitOutcome(u, p, k, a)
                w == UseOutcome(u, p)
            IN /\ ProfileIn(o.disk, o.sessions, p) # None
               /\ ValidPath(<<old>> \o o.res.statuses
                              \o <<ProfileIn(o.disk, o.sessions, p).status>>)
               /\ ProfileIn(w.disk, w.sessions, p) # None
               /\ ValidPath(<<old, ProfileIn(w.disk, w.sessions, p).status>>)

(* C6: no record, on disk or in the active sessions, has status processing,
   before or after any submission; a submission that ran finalize went through
   processing and ended in ready or failed, which is the status the profile
   then has; and finalize applied to any profile the models variant holds ends
   in ready or failed. *)
C6_FinalizeResolves ==
    /\ \A p \in ProfileIds :
          /\ disk[p] # None => disk[p].status # "processing"
          /\ active_sessions[p] # None => active_sessions[p].status # "processing"
          /\ (impl = "models" /\ Profile(p) # None) =>
                mdl_finalize_voice_profile(Profile(p), files[p]).profile.status
                    \in {"ready", "failed"}
    /\ \A p \in ProfileIds, u \in Users, k \in StepNumbers, a \in Samples :
          LET o == SubmitOutcome(u, p, k, a)
              n == Len(o.res.statuses)
          IN /\ o.disk[p] # None => o.disk[p].status # "processing"
             /\ o.sessions[p] # None => o.sessions[p].status # "processing"
             /\ n > 0 =>
                   /\ o.res.statuses[1] = "processing"
                   /\ o.res.statuses[n] \in {"ready", "failed"}
                   /\ ProfileIn(o.disk, o.sessions, p).status = o.res.statuses[n]

(* a submission ran finalize, which failed and left the profile failed *)
C6_Witness ==
    /\ last.op = "submit"
    /\ last.res.statuses = <<"processing", "failed">>
    /\ Profile(last.pid) # None
    /\ Profile(last.pid).status = "failed"

(* C7: calls are atomic (no await of the handler suspends), so two concurrent
   submissions of the expected step k run one after the other: of two owner
   submissions of step k with suitable audio the first is accepted, the second
   is rejected as an invalid step, and the completed count ends one higher. *)
C7_DuplicateSubmitRejected ==
    \A p \in ProfileIds, a \in Samples, b \in Samples :
        (Recording(p) /\ Suitable(a) /\ Suitable(b)) =>
            LET u == Owner(Profile(p))
                k == ExpectedStep(Profile(p))
                o1 == SubmitOutcome(u, p, k, a)
                o2 == SubmitAt(o1.disk, o1.files, o1.sessions, u, p, k, b)
            IN /\ o1.res.exc = "none"
               /\ InvalidStep(o2.res)
               /\ ProfileIn(o2.disk, o2.sessions, p) # None
               /\ Len(SelectSeq(CompletedFlags(ProfileIn(o2.disk, o2.sessions, p)),
                                LAMBDA c : c))
                    = Len(SelectSeq(CompletedFlags(Profile(p)), LAMBDA c : c)) + 1

-----------------------------------------------------------------------------
(* Use and delete *)

TimesUsed(d, p) == d[p].times_used

(* the owner's use cannot go through: the profile is not ready, or its     *)
(* reference audio is gone                                                 *)
NotUsable(p) ==
    Profile(p) # None /\ (Profile(p).status # "ready" \/ ReferenceArtifact(p) = <<>>)

(* C8: the owner's use of a profile that is not ready, or whose
   reference artifact is missing, fails with the not-ready validation error and
   changes nothing. *)
C8_UseFailsNotReady ==
    \A p \in ProfileIds :
        NotUsable(p) =>
            LET o == UseOutcome(Owner(Profile(p)), p)
            IN NotReady(o.res) /\ Unchanged(o)

(* C9: a use that returns leaves the persisted times_used of its profile one
   higher than before, the active session agreeing with the record on disk; no
   other step, of any operation, lowers the times_used of a record. *)
C9_TimesUsedCounts ==
    [][\A p \in ProfileIds :
          (disk[p] # None /\ disk'[p] # None) =>
              IF last'.op = "use" /\ last'.pid = p /\ last'.res.exc = "none"
              THEN /\ TimesUsed(disk', p) = TimesUsed(disk, p) + 1
                   /\ active_sessions'[p] # None =>
                          TimesUsed(active_sessions', p) = TimesUsed(disk', p)
              ELSE TimesUsed(disk', p) >= TimesUsed(disk, p)]_vars

(* a use returned and the counter stands at the number of uses made *)
C9_Witness ==
    /\ last.op = "use"
    /\ last.res.exc = "none"
    /\ disk[last.pid] # None
    /\ TimesUsed(disk, last.pid) = MaxUses

(* C10: whenever a delete returns true, in whatever state the profile was, the
   record, every file of the profile directory and the active session are gone,
   and afterwards every use and every submission for that id, by anyone, fails
   with the not-found validation error and changes nothing. *)
C10_DeleteRemovesAll ==
    \A p \in ProfileIds, u \in Users :
        LET o == DeleteOutcome(u, p)
        IN (o.res.exc = "none" /\ o.res.ret.deleted) =>
              /\ Profile(p) # None /\ u = Owner(Profile(p))
              /\ o.disk[p] = None
              /\ o.files[p] = {}
              /\ o.sessions[p] = None
              /\ ProfileIn(o.disk, o.sessions, p) = None
              /\ \A v \in Users :
                    LET w == UseAt(o.disk, o.files, o.sessions, v, p)
                    IN NotFound(w.res) /\ w.disk = o.disk /\ w.files = o.files
                       /\ w.sessions = o.sessions
              /\ \A v \in Users, k \in StepNumbers, a \in Samples :
                    LET w == SubmitAt(o.disk, o.files, o.sessions, v, p, k, a)
                    IN NotFound(w.res) /\ w.disk = o.disk /\ w.files = o.files
                       /\ w.sessions = o.sessions

(* a submission came after the delete of its profile and was turned away *)
C10_Witness ==
    /\ last.op = "submit"
    /\ NotFound(last.res)
    /\ issued >= last.pid
    /\ disk[last.pid] = None
    /\ active_sessions[last.pid] = None
    /\ files[last.pid] = {}

-----------------------------------------------------------------------------
(* Delete at the API boundary, and owner isolation *)

(* DELETE /profiles/{profile_id}: the service's exceptions pass through,   *)
(* a False result is turned into the not-found validation error.           *)
route_delete_voice_profile(d, f, s, user, pid) ==
    LET o == DeleteAt(d, f, s, user, pid)
    IN IF o.res.exc # "none" THEN o
       ELSE IF o.res.ret.deleted
       THEN Outcome(o.disk, o.files, o.sessions, Returned([success |-> TRUE]))
       ELSE Outcome(o.disk, o.files, o.sessions,
                    Raised("ValidationException", "FILE_NOT_FOUND"))

(* the profile with this id was created and has been deleted *)
Deleted(p) == p <= issued /\ disk[p] = None /\ active_sessions[p] = None

(* C11: a delete of a profile that was already deleted, sent through the delete
   route by any user, returns to the caller without an exception and changes
   nothing. *)
C11_SecondDeleteReturns ==
    \A p \in ProfileIds, u \in Users :
        Deleted(p) =>
            LET o == route_delete_voice_profile(disk, files, active_sessions, u, p)
            IN o.res.exc = "none" /\ Unchanged(o)

(* get_user_profiles: the summaries (services) or the records (models) of  *)
(* the profiles on disk whose owner is the user                            *)
svc_get_user_profiles(d, user) ==
    {[profile_id |-> d[p].profile_id, profile_name |-> d[p].profile_name,
      status |-> d[p].status, quality |-> d[p].quality,
      times_used |-> d[p].times_used] :
        p \in {q \in ProfileIds : d[q] # None /\ d[q].owner = user}}

mdl_get_user_profiles(d, user) ==
    {d[p] : p \in {q \in ProfileIds : d[q] # None /\ d[q].user_id = user}}

ListAt(d, user) ==
    IF impl = "services" THEN svc_get_user_profiles(d, user)
    ELSE mdl_get_user_profiles(d, user)

(* a call was turned away: it raised, or it is a delete that returned False *)
Rejected(res) == res.exc # "none" \/ res.ret = [deleted |-> FALSE]

(* C12: for every profile and every user who is not its owner, whatever step
   number and audio: that user's submission, use and delete are turned away,
   hand out nothing of the profile, and leave the records, the files and the
   active sessions as they were; and that user's listing holds no entry of the
   profile. *)
C12_OwnerIsolation ==
    \A p \in ProfileIds, u \in Users :
        (Profile(p) # None /\ u # Owner(Profile(p))) =>
            /\ \A k \in StepNumbers, a \in Samples :
                  LET o == SubmitOutcome(u, p, k, a)
                  IN o.res.exc # "none" /\ o.res.ret = None /\ Unchanged(o)
            /\ LET o == UseOutcome(u, p)
               IN o.res.exc # "none" /\ o.res.ret = None /\ Unchanged(o)
            /\ LET o == DeleteOutcome(u, p)
               IN Rejected(o.res) /\ Unchanged(o)
            /\ \A item \in ListAt(disk, u) : item.profile_id # p

(* a stranger's submission for an existing profile with recordings was     *)
(* turned away                                                             *)
C12_Witness ==
    /\ last.op = "submit"
    /\ NotFound(last.res)
    /\ Profile(last.pid) # None
    /\ files[last.pid] # {}
    /\ ListAt(disk, Owner(Profile(last.pid))) # {}

-----------------------------------------------------------------------------
(* The engine as a state machine.  Every engine method starts with         *)
(* "if not self._initialized: await self.initialize()", and initialize     *)
(* awaits asyncio.to_thread(self._initialize_sync) before it sets          *)
(* _initialized: the event loop runs other requests between a request's    *)
(* check of the flag, the end of its load, and its resumption.  The rest   *)
(* of a method runs as one step.  The entry points of VoiceCloningService  *)
(* are taken as one step each.                                             *)

EngineOps == {"initialize", "register_speaker_from_wav", "synthesize", "clone_voice"}

(* the arguments a method is called with: a reference that is missing or   *)
(* present, the speaker passed to synthesize                               *)
ArgsOf(op) ==
    CASE op = "initialize" -> {Nil}
      [] op = "register_speaker_from_wav" -> {"missing", "present"}
      [] op = "synthesize" -> {Nil, "s0"}
      [] op = "clone_voice" -> {"missing", "present"}

engine_call(e, b, op, arg) ==
    CASE op = "initialize" ->
            LET r == initialize(e, b, 0) IN EngineCall(r.e, r.res, <<>>, Nil)
      [] op = "register_speaker_from_wav" ->
            LET r == register_speaker_from_wav(e, b, arg = "present", 0)
            IN EngineCall(r.e, r.res, <<>>, IF r.res.exc = "none" THEN r.res.ret ELSE Nil)
      [] op = "synthesize" -> synthesize(e, b, arg)
      [] op = "clone_voice" -> clone_voice(e, b, arg = "present")

Finished(op, arg, c) == CallOf(op, arg, c.res.exc, c.res.code, c.identity, c.calls, NoResponse)

(* the method reaches initialize() and finds the flag unset *)
Suspends(e, op, arg) ==
    /\ ~e.initialized
    /\ ~(op = "register_speaker_from_wav" /\ arg = "missing")

EngineInit ==
    /\ impl = "services"
    /\ disk = [p \in ProfileIds |-> None]
    /\ files = [p \in ProfileIds |-> {}]
    /\ active_sessions = [p \in ProfileIds |-> None]
    /\ issued = 0
    /\ submitted = 0
    /\ removals = 0
    /\ last = Call("none", 0, Returned(None))
    /\ deployment \in Deployments
    /\ engine = XTTSTTSEngine
    /\ tasks = [r \in Requests |-> Idle]
    /\ begun = 0
    /\ called = NoCall
    /\ PlatformStart

(* a request calls a method of the engine *)
begin(r, op, arg) ==
    /\ tasks[r].pc = "idle"
    /\ begun < MaxCalls
    /\ begun' = begun + 1
    /\ IF Suspends(engine, op, arg)
       THEN /\ tasks' = [tasks EXCEPT ![r] = [pc |-> "loading", op |-> op, arg |-> arg, exc |-> "none"]]
            /\ UNCHANGED <<engine, called>>
       ELSE LET c == engine_call(engine, deployment, op, arg)
            IN /\ engine' = c.e
               /\ called' = Finished(op, arg, c)
               /\ UNCHANGED tasks
    /\ UNCHANGED deployment
    /\ UNCHANGED <<profile_vars, platform_vars>>

(* the worker thread of a request runs _initialize_sync *)
load(r) ==
    /\ tasks[r].pc = "loading"
    /\ LET sync == initialize_sync(engine, deployment, 0)
       IN /\ engine' = sync.e
          /\ tasks' = [tasks EXCEPT ![r].pc = "loaded", ![r].exc = sync.res.exc]
    /\ UNCHANGED <<deployment, begun, called>>
    /\ UNCHANGED <<profile_vars, platform_vars>>

(* initialize() resumes: it sets the flag or raises ModelLoadError, and    *)
(* the method goes on                                                      *)
resume(r) ==
    /\ tasks[r].pc = "loaded"
    /\ IF tasks[r].exc = "none"
       THEN LET c == engine_call([engine EXCEPT !.initialized = TRUE], deployment,
                                 tasks[r].op, tasks[r].arg)
            IN /\ engine' = c.e
               /\ called' = Finished(tasks[r].op, tasks[r].arg, c)
       ELSE /\ called' = CallOf(tasks[r].op, tasks[r].arg, "ModelLoadError", "none", Nil, <<>>, NoResponse)
            /\ UNCHANGED engine
    /\ tasks' = [tasks EXCEPT ![r] = Idle]
    /\ UNCHANGED <<deployment, begun>>
    /\ UNCHANGED <<profile_vars, platform_vars>>

Texts == {"empty", "blank", "words"}
References == {Nil, "missing", "present"}
MakedirsOutcomes == {"ok", "OSError"}
StoredOutcomes == References \cup Exceptions
ValidOutcomes == {"true", "false"} \cup Exceptions

Served(op, arg, c) ==
    CallOf(op, arg, c.raised, "none", c.identity, c.calls, c.response)

(* VoiceCloningService.synthesize_speech on the engine *)
serve_synthesize_speech(text, reference, makedirs) ==
    /\ begun < MaxCalls
    /\ begun' = begun + 1
    /\ LET c == synthesize_speech(engine, deployment, text, reference, makedirs)
       IN /\ engine' = c.e
          /\ called' = Served("synthesize_speech", reference, c)
    /\ UNCHANGED <<deployment, tasks>>
    /\ UNCHANGED <<profile_vars, platform_vars>>

(* VoiceCloningService.clone_voice on the engine *)
serve_clone_voice(stored, valid, makedirs) ==
    /\ begun < MaxCalls
    /\ begun' = begun + 1
    /\ LET c == service_clone_voice(engine, deployment, stored, valid, makedirs)
       IN /\ engine' = c.e
          /\ called' = Served("clone_voice_request", stored, c)
    /\ UNCHANGED <<deployment, tasks>>
    /\ UNCHANGED <<profile_vars, platform_vars>>

NextEngine ==
    \/ \E r \in Requests, op \in EngineOps : \E arg \in ArgsOf(op) : begin(r, op, arg)
    \/ \E r \in Requests : load(r)
    \/ \E r \in Requests : resume(r)
    \/ \E t \in Texts, ref \in References, m \in MakedirsOutcomes : serve_synthesize_speech(t, ref, m)
    \/ \E s \in StoredOutcomes, v \in ValidOutcomes, m \in MakedirsOutcomes : serve_clone_voice(s, v, m)

SpecEngine == EngineInit /\ [][NextEngine]_vars


-----------------------------------------------------------------------------
(* The upload store and the background task background_tasks of one process.       *)
(* start and stop are called one after the other (the lifespan of the app  *)
(* calls start at startup and stop at shutdown); stop is suspended while   *)
(* it awaits a cancelled task, and the tasks move in between.              *)

PlatformInit ==
    /\ impl = "services"
    /\ disk = [p \in ProfileIds |-> None]
    /\ files = [p \in ProfileIds |-> {}]
    /\ active_sessions = [p \in ProfileIds |-> None]
    /\ issued = 0
    /\ submitted = 0
    /\ removals = 0
    /\ last = Call("none", 0, Returned(None))
    /\ deployment = DefaultDeployment
    /\ engine = XTTSTTSEngine
    /\ tasks = [r \in Requests |-> Idle]
    /\ begun = 0
    /\ called = NoCall
    /\ PlatformStart

limiter_vars == <<clock, buckets, http_response>>
store_vars == <<upload_dir, aged, store_call>>

start_called ==
    /\ control.pc = "idle"
    /\ control.calls < MaxManagerCalls
    /\ background_tasks' = start(background_tasks)
    /\ control' = [control EXCEPT !.last = "start", !.calls = @ + 1]
    /\ UNCHANGED <<profile_vars, engine_vars, torch_vars, store_vars, limiter_vars>>

stop_called ==
    /\ control.pc = "idle"
    /\ control.calls < MaxManagerCalls
    /\ background_tasks' = stop_begins(background_tasks)
    /\ control' = IF background_tasks.running /\ background_tasks.tasks # <<>>
                  THEN [control EXCEPT !.pc = "stopping", !.at = 1, !.calls = @ + 1]
                  ELSE [control EXCEPT !.last = "stop", !.calls = @ + 1]
    /\ UNCHANGED <<profile_vars, engine_vars, torch_vars, store_vars, limiter_vars>>

(* the task stop awaits has ended *)
stop_resumed ==
    /\ control.pc = "stopping"
    /\ background_tasks.tasks[control.at].state = "done"
    /\ background_tasks' = stop_resumes(background_tasks, control.at)
    /\ control' = IF control.at < Len(background_tasks.tasks)
                  THEN [control EXCEPT !.at = @ + 1]
                  ELSE [control EXCEPT !.pc = "idle", !.at = 0, !.last = "stop", !.cleared = @ + 1]
    /\ UNCHANGED <<profile_vars, engine_vars, torch_vars, store_vars, limiter_vars>>

(* the event loop runs a new task up to its first sleep *)
task_begins(i) ==
    /\ i \in 1..Len(background_tasks.tasks)
    /\ background_tasks.tasks[i].state = "pending"
    /\ background_tasks' = [background_tasks EXCEPT !.tasks[i].state = "sleeping"]
    /\ UNCHANGED <<control, profile_vars, engine_vars, torch_vars, store_vars, limiter_vars>>

(* a sleep is over: the task leaves its loop if the background_tasks was stopped,   *)
(* else periodic_cleanup removes the old files and sleeps again            *)
task_wakes(i) ==
    /\ i \in 1..Len(background_tasks.tasks)
    /\ background_tasks.tasks[i].state = "sleeping"
    /\ IF ~background_tasks.running
       THEN /\ background_tasks' = [background_tasks EXCEPT !.tasks[i].state = "done"]
            /\ UNCHANGED <<upload_dir, aged>>
       ELSE /\ background_tasks.tasks[i].name = "periodic_cleanup"
            /\ aged # {}
            /\ upload_dir' = cleanup_old_files(upload_dir, aged)
            /\ aged' = {}
            /\ UNCHANGED background_tasks
    /\ UNCHANGED <<control, store_call, profile_vars, engine_vars, torch_vars, limiter_vars>>

(* CancelledError reaches a cancelled task: it ends *)
task_cancelled(i) ==
    /\ i \in 1..Len(background_tasks.tasks)
    /\ background_tasks.tasks[i].state = "cancelling"
    /\ background_tasks' = [background_tasks EXCEPT !.tasks[i].state = "done"]
    /\ UNCHANGED <<control, profile_vars, engine_vars, torch_vars, store_vars, limiter_vars>>

(* The environment: a file is put into the upload directory, and a day     *)
(* passes, after which the files there are older than max_age_hours        *)
file_placed(name) ==
    /\ name \notin upload_dir
    /\ upload_dir' = upload_dir \cup {name}
    /\ UNCHANGED <<aged, store_call, background_tasks, control, profile_vars, engine_vars, torch_vars, limiter_vars>>

day_passes ==
    /\ aged # upload_dir
    /\ aged' = upload_dir
    /\ UNCHANGED <<upload_dir, store_call, background_tasks, control, profile_vars, engine_vars, torch_vars, limiter_vars>>

(* uuid4 gives an id no stored file carries *)
Fresh(id) == \A name \in upload_dir : name[1] # id

StoreApply(op, res) ==
    /\ upload_dir' = res.dir
    /\ aged' = aged \cap res.dir
    /\ store_call' = [op |-> op, res |-> [res EXCEPT !.dir = {}]]
    /\ UNCHANGED <<background_tasks, control, profile_vars, engine_vars, torch_vars, limiter_vars>>

upload_saved(id, file) ==
    /\ Fresh(id)
    /\ StoreApply("save_upload", save_upload(upload_dir, id, file))

path_looked_up(id) == StoreApply("get_file_path", get_file_path(upload_dir, id))

file_deleted(id) == StoreApply("delete_file", delete_file(upload_dir, id))

NextPlatform ==
    \/ start_called
    \/ stop_called
    \/ stop_resumed
    \/ \E i \in 1..2 : task_begins(i)
    \/ \E i \in 1..2 : task_wakes(i)
    \/ \E i \in 1..2 : task_cancelled(i)
    \/ \E name \in StoredNames : file_placed(name)
    \/ day_passes
    \/ \E id \in FileIds, file \in Uploads : upload_saved(id, file)
    \/ \E id \in FileIds : path_looked_up(id)
    \/ \E id \in FileIds : file_deleted(id)

SpecPlatform == PlatformInit /\ [][NextPlatform]_vars

(* start() called by another coroutine while stop() is suspended in        *)
(* `await task`: the flag is clear by then, so start sets it and appends   *)
(* its two tasks to the list stop is iterating over                        *)
start_while_stopping ==
    /\ control.pc = "stopping"
    /\ control.calls < MaxManagerCalls
    /\ background_tasks' = start(background_tasks)
    /\ control' = [control EXCEPT !.calls = @ + 1, !.overlapped = @ + 1]
    /\ UNCHANGED <<profile_vars, engine_vars, torch_vars, store_vars, limiter_vars>>

(* start and stop called from coroutines that may overlap *)
NextOverlap ==
    \/ start_called
    \/ stop_called
    \/ stop_resumed
    \/ start_while_stopping
    \/ \E i \in 1..Len(background_tasks.tasks) : task_begins(i)
    \/ \E i \in 1..Len(background_tasks.tasks) : task_wakes(i)
    \/ \E i \in 1..Len(background_tasks.tasks) : task_cancelled(i)
    \/ \E name \in StoredNames : file_placed(name)
    \/ day_passes

SpecOverlap == PlatformInit /\ [][NextOverlap]_vars

-----------------------------------------------------------------------------
(* The middleware in front of the routes: requests arrive one at a time    *)
(* as the clock moves on.  The classes other than upload have limits out   *)
(* of reach of the requests drawn here, so their buckets are filled up to  *)
(* MaxQueued requests only.                                                *)

Drawn(request) ==
    IF request.path \in HealthPaths \/ get_endpoint_type(request.path) = "upload" THEN TRUE
    ELSE Len(buckets[<<get_client_id(request), get_endpoint_type(request.path)>>]) < MaxQueued

request_dispatched(request, status) ==
    /\ Drawn(request)
    /\ buckets' = dispatch(buckets, request, clock, status).buckets
    /\ http_response' = dispatch(buckets, request, clock, status).response
    /\ UNCHANGED <<clock, background_tasks, control, store_vars, profile_vars, engine_vars, torch_vars>>

time_passes ==
    /\ clock < MaxClockSteps * Window
    /\ clock' = clock + Window
    /\ UNCHANGED <<buckets, http_response, background_tasks, control, store_vars, profile_vars, engine_vars, torch_vars>>

NextLimiter ==
    \/ \E request \in HttpRequests, status \in Statuses : request_dispatched(request, status)
    \/ time_passes

SpecLimiter == PlatformInit /\ [][NextLimiter]_vars

-----------------------------------------------------------------------------
(* The trusted fallback, statement by statement, on the worker threads.    *)

TorchStep(t, w, f) ==
    /\ workers' = [workers EXCEPT ![t] = w]
    /\ torch_load' = f
    /\ UNCHANGED <<profile_vars, engine_vars, background_tasks, control, store_vars, limiter_vars>>

(* the safe load has failed and the checkpoint is not trusted: the         *)
(* fallback is not tried                                                   *)
fallback_refused(t) ==
    /\ workers[t].pc = "idle"
    /\ workers[t].loads < MaxLoads
    /\ TorchStep(t, [workers[t] EXCEPT !.ended = "refused", !.loads = @ + 1], torch_load)

(* orig_torch_load = torch.load *)
orig_saved(t) ==
    /\ workers[t].pc = "idle"
    /\ workers[t].loads < MaxLoads
    /\ TorchStep(t, [workers[t] EXCEPT !.pc = "saved", !.orig_torch_load = torch_load,
                                        !.loads = @ + 1], torch_load)

(* torch.load = _torch_load_force_no_weights_only *)
torch_load_forced(t) ==
    /\ workers[t].pc = "saved"
    /\ TorchStep(t, [workers[t] EXCEPT !.pc = "forced"],
                 torch_load_force_no_weights_only(t, workers[t].orig_torch_load))

(* self._model = construct_tts(): the model is built, or the load raises   *)
tts_constructed(t, ok) ==
    /\ workers[t].pc = "forced"
    /\ TorchStep(t, [workers[t] EXCEPT !.pc = IF ok THEN "constructed" ELSE "raising"], torch_load)

(* finally: torch.load = orig_torch_load *)
torch_load_restored(t) ==
    /\ workers[t].pc \in {"constructed", "raising"}
    /\ TorchStep(t, [workers[t] EXCEPT !.pc = "idle",
                        !.ended = IF workers[t].pc = "constructed" THEN "loaded" ELSE "failed"],
                 workers[t].orig_torch_load)

NextTorch ==
    \/ \E t \in Requests : fallback_refused(t)
    \/ \E t \in Requests : orig_saved(t)
    \/ \E t \in Requests : torch_load_forced(t)
    \/ \E t \in Requests, ok \in BOOLEAN : tts_constructed(t, ok)
    \/ \E t \in Requests : torch_load_restored(t)

SpecTorch == PlatformInit /\ [][NextTorch]_vars

-----------------------------------------------------------------------------
(* The speaker resolver *)

(* the speaker manager is missing, or each helper it has raises *)
NoCapability(b) ==
    ~b.manager \/ \A i \in 1..Len(ManagerFns) : b.helpers[i] \in {"absent", "raises"}

ResolveOutcome(reference_exists) == try_register_speaker(engine, deployment, reference_exists)
RegisterOutcome(wav_exists) == register_speaker_from_wav(engine, deployment, wav_exists, 0)

ReturnsNone(r) == r.res.exc = "none" /\ r.res.ret = Nil

(* C13, as stated: on a backend with no registration capability on the
   engine or its speaker manager, or whose every capability raises, the
   resolver of the orchestrator and the registration of the engine return None
   for any reference path and never raise. *)
C13_ResolveNeverRaises ==
    NoCapability(deployment) =>
        \A exists \in BOOLEAN :
            ReturnsNone(ResolveOutcome(exists)) /\ ReturnsNone(RegisterOutcome(exists))

(* C13, amended: on such a backend the resolver of the orchestrator returns
   None and never raises; the registration of the engine returns None, or
   raises ModelLoadError when the reference exists, the engine is not
   initialized and its model cannot be loaded, and raises nothing else. *)
C13_ResolveReturnsNone ==
    NoCapability(deployment) =>
        \A exists \in BOOLEAN :
            /\ ReturnsNone(ResolveOutcome(exists))
            /\ \/ ReturnsNone(RegisterOutcome(exists))
               \/ /\ RegisterOutcome(exists).res.exc = "ModelLoadError"
                  /\ exists
                  /\ ~engine.initialized
                  /\ initialize(engine, deployment, 0).res.exc = "ModelLoadError"

(* a registration of an existing reference ran on a loaded engine whose    *)
(* manager helpers all raise or are missing, and returned None             *)
C13_Witness ==
    /\ called.op = "register_speaker_from_wav"
    /\ called.arg = "present"
    /\ called.exc = "none"
    /\ called.identity = Nil
    /\ engine.initialized
    /\ deployment.manager
    /\ \E i \in 1..Len(ManagerFns) : deployment.helpers[i] = "raises"
    /\ NoCapability(deployment)

-----------------------------------------------------------------------------
(* The speaker-selection policy of synthesize *)

(* a multi-speaker backend, no default speaker configured, no fallback     *)
(* without a speaker                                                       *)
StrictMultiSpeaker(b) == b.manager /\ b.default_id = Nil /\ ~b.allow_fallback

SynthesizeOutcome(speaker) == synthesize(engine, deployment, speaker)

(* the engine as synthesize finds it after its initialize() *)
InitializeOutcome == initialize(engine, deployment, 0)

NullSpeakerCall(calls) == \E i \in 1..Len(calls) : calls[i] = Nil

(* C14, as stated: on a multi-speaker backend with no default speaker
   configured and fallback-without-speaker disabled, synthesize without an
   explicit speaker raises, and tts_to_file is not called with a null speaker
   in that call. *)
C14_NoSpeakerAlwaysRaises ==
    StrictMultiSpeaker(deployment) =>
        /\ SynthesizeOutcome(Nil).res.exc # "none"
        /\ ~NullSpeakerCall(SynthesizeOutcome(Nil).calls)

(* C14, amended: on a multi-speaker backend with no default speaker
   configured, fallback-without-speaker disabled and no speaker registered in
   the model once it is loaded, synthesize without an explicit speaker raises
   without calling tts_to_file at all; when the model is loaded the error is
   the AudioProcessingError that asks for a speaker. *)
C14_StrictNoSpeakerRaises ==
    (/\ StrictMultiSpeaker(deployment)
     /\ InitializeOutcome.res.exc = "none" => speaker_keys(InitializeOutcome.e, deployment) = <<>>) =>
        /\ SynthesizeOutcome(Nil).res.exc # "none"
        /\ SynthesizeOutcome(Nil).calls = <<>>
        /\ InitializeOutcome.res.exc = "none" =>
              /\ SynthesizeOutcome(Nil).res.exc = "AudioProcessingError"
              /\ SynthesizeOutcome(Nil).res.code = "speaker_required"

(* synthesize without a speaker was refused on a loaded multi-speaker      *)
(* model with no speaker registered                                        *)
C14_Witness ==
    /\ called.op = "synthesize"
    /\ called.arg = Nil
    /\ called.exc = "AudioProcessingError"
    /\ called.kind = "speaker_required"
    /\ called.calls = <<>>
    /\ StrictMultiSpeaker(deployment)
    /\ engine.initialized
    /\ engine.model.speakers = <<>>

-----------------------------------------------------------------------------
(* The compatibility probe of _invoke_tts_to_file *)

SpeakerWavs == {Nil, "missing", "present"}
Speakers == {Nil, "s0"}

(* the backend of the deployment with another tts_to_file *)
WithBackend(sig, respond) == [deployment EXCEPT !.sig = sig, !.respond = respond]

InvokeOutcome(sig, respond, wav, speaker) ==
    invoke_tts_to_file(engine, WithBackend(sig, respond), wav, speaker)

Increasing(seq) == \A i \in 1..(Len(seq) - 1) : seq[i] < seq[i + 1]

Attempted(inv, i) == \E j \in 1..Len(inv.attempts) : inv.attempts[j] = i

(* C15: one invocation on a loaded model probes the strategies in the order
   keywords_from_signature, preferred_keywords, retry_with_resolved_speaker
   (only after the multi-speaker complaint), positional fallbacks; each at
   most once; it returns at the first strategy that succeeds; and when it
   gives up, the positional fallbacks have been attempted. *)
C15_OrderedProbe ==
    engine.model # None =>
        \A sig \in Sigs, respond \in Responds, wav \in SpeakerWavs, speaker \in Speakers :
            LET inv == InvokeOutcome(sig, respond, wav, speaker)
            IN /\ Increasing(inv.attempts)
               /\ Attempted(inv, 3) => respond[2] = "NoSpeaker"
               /\ inv.res.exc = "none" =>
                     /\ inv.res.ret = inv.attempts[Len(inv.attempts)]
                     /\ \A j \in 1..Len(inv.attempts) :
                           respond[inv.attempts[j]] = "ok" <=> j = Len(inv.attempts)
               /\ inv.res.exc # "none" => Attempted(inv, 4) /\ Attempted(inv, 5)

(* C16: an invocation on a loaded model that fails after attempting at least
   one strategy raises the aggregated AudioProcessingError: its message names
   every strategy attempted in the call, and it is raised from the exception
   of the last attempt; also when the retry with a resolved speaker was made
   or looked for. *)
C16_AggregatedError ==
    engine.model # None =>
        \A sig \in Sigs, respond \in Responds, wav \in SpeakerWavs, speaker \in Speakers :
            LET inv == InvokeOutcome(sig, respond, wav, speaker)
            IN (inv.res.exc # "none" /\ inv.attempts # <<>>) =>
                  /\ inv.res.exc = "AudioProcessingError"
                  /\ inv.res.code = "aggregated"
                  /\ inv.named = inv.attempts
                  /\ inv.cause = inv.attempts[Len(inv.attempts)]

-----------------------------------------------------------------------------
(* The entry points of the orchestrator *)

(* a structured result: nothing raised; a success carries the output path  *)
(* and no error code, a failure a message and one of the error codes       *)
Structured(c) ==
    /\ c.raised = "none"
    /\ c.response.success =>
          c.response.audio_file_path # Nil /\ c.response.error_code = Nil
    /\ ~c.response.success =>
          c.response.message # Nil /\ c.response.error_code \in ErrorCodes

(* C17: whatever the engine, os.makedirs, the file store and the quality
   gate return or raise, synthesize_speech and clone_voice of the
   orchestrator raise nothing and return a structured result. *)
C17_StructuredResults ==
    /\ \A text \in Texts, reference \in References, makedirs \in MakedirsOutcomes :
          Structured(synthesize_speech(engine, deployment, text, reference, makedirs))
    /\ \A stored \in StoredOutcomes, valid \in ValidOutcomes, makedirs \in MakedirsOutcomes :
          Structured(service_clone_voice(engine, deployment, stored, valid, makedirs))

(* a cloning request ended in INTERNAL_ERROR for an exception outside the  *)
(* hierarchy of VoiceCloningException                                      *)
C17_Witness ==
    /\ called.op = "clone_voice_request"
    /\ called.arg \in Exceptions \ VoiceCloningExceptions
    /\ called.exc = "none"
    /\ ~called.response.success
    /\ called.response.error_code = "INTERNAL_ERROR"

(* the synthesis of a cloning request is gated by the identity the         *)
(* registration of the reference returned: without one the request fails   *)
(* and tts_to_file is not called; a call of tts_to_file means there is     *)
(* one, and the first call is given it                                     *)
Gated(identity, calls, success) ==
    /\ identity = Nil => ~success /\ calls = <<>>
    /\ calls # <<>> => identity # Nil /\ calls[1] = identity

(* C18: in a cloning request, through XTTSTTSEngine.clone_voice or through
   the orchestrator's clone_voice, whatever the file store, the quality gate
   and os.makedirs do: tts_to_file is called only after the registration of
   the reference audio returned a speaker identity; when it returned none,
   the request ends in a failure and tts_to_file is not called. *)
C18_CloneNeedsIdentity ==
    /\ \A exists \in BOOLEAN :
          LET c == clone_voice(engine, deployment, exists)
          IN Gated(c.identity, c.calls, c.res.exc = "none")
    /\ \A stored \in StoredOutcomes, valid \in ValidOutcomes, makedirs \in MakedirsOutcomes :
          LET c == service_clone_voice(engine, deployment, stored, valid, makedirs)
          IN Gated(c.identity, c.calls, c.response.success)

(* a cloning request for a stored, valid reference reached a loaded engine *)
(* that could not register it, and failed without a call of tts_to_file    *)
C18_Witness ==
    /\ called.op = "clone_voice_request"
    /\ called.arg = "present"
    /\ called.identity = Nil
    /\ called.calls = <<>>
    /\ ~called.response.success
    /\ called.response.error_code = "AUDIO_PROCESSING_ERROR"
    /\ engine.initialized
    /\ NoCapability(deployment)

-----------------------------------------------------------------------------
(* Loading the model *)

(* C19: however the calls of initialize, synthesize, clone_voice and
   register_speaker_from_wav on one engine interleave or nest, TTS(...)
   builds the model at most once, and initialize on an initialized engine
   changes nothing. *)
C19_ModelConstructedOnce ==
    /\ engine.constructed <= 1
    /\ engine.initialized => initialize(engine, deployment, 0).e = engine

(* the safe load of the engine as it is fails or is unavailable *)
SafeLoadFails ==
    ~deployment.safe_ctx \/ ~safe_load(engine, deployment, 1, 0).loaded

(* C20: the load with weights_only=False is attempted only on a deployment
   that trusts its checkpoints; on any other, no such load is ever attempted,
   and an initialize whose safe load fails or is unavailable raises
   ModelLoadError and leaves the engine uninitialized, with no model. *)
C20_FallbackNeedsTrust ==
    ~deployment.trust =>
        /\ engine.full_attempts = 0
        /\ (~engine.initialized /\ SafeLoadFails) =>
              /\ InitializeOutcome.res.exc = "ModelLoadError"
              /\ InitializeOutcome.e.full_attempts = 0
              /\ ~InitializeOutcome.e.initialized
              /\ InitializeOutcome.e.model = engine.model

(* initialize gave up with ModelLoadError after the safe load had used all *)
(* its attempts, on a deployment that does not trust its checkpoints       *)
C20_Witness ==
    /\ called.op = "initialize"
    /\ called.exc = "ModelLoadError"
    /\ ~deployment.trust
    /\ deployment.safe_ctx
    /\ engine.allowlist = MaxAttempts
    /\ ~engine.initialized
    /\ engine.model = None
    /\ engine.full_attempts = 0

(* what the safe-load retry loop does with the engine as it is *)
SafeLoadOutcome == safe_load(engine, deployment, 1, 0)

(* C21: the safe load makes at most MaxAttempts attempts; each attempt      *)
(* after the first follows a class added to the allowlist by the attempt    *)
(* before it; the wait after the n-th failed attempt, before attempt n + 1, *)
(* is 2^(n-1) seconds; the allowlist never shrinks, in the loop or between  *)
(* calls; and initialize ends with the model loaded by the safe load, with  *)
(* the model loaded by the trusted fallback, or with ModelLoadError.        *)
C21_BoundedSafeLoad ==
    /\ [](deployment.safe_ctx =>
            /\ SafeLoadOutcome.attempts \in 1..MaxAttempts
            /\ SafeLoadOutcome.attempts - 1 <= SafeLoadOutcome.e.allowlist - engine.allowlist
            /\ Len(SafeLoadOutcome.slept) = SafeLoadOutcome.e.allowlist - engine.allowlist
            /\ \A n \in 1..Len(SafeLoadOutcome.slept) : SafeLoadOutcome.slept[n] = 2 ^ (n - 1)
            /\ SafeLoadOutcome.e.allowlist >= engine.allowlist
            /\ ~engine.initialized =>
                  \/ /\ InitializeOutcome.res.exc = "none"
                     /\ InitializeOutcome.e.model # None
                     /\ \/ SafeLoadOutcome.loaded
                        \/ deployment.trust /\ InitializeOutcome.e.full_attempts > engine.full_attempts
                  \/ InitializeOutcome.res.exc = "ModelLoadError")
    /\ [][engine'.allowlist >= engine.allowlist]_vars

(* an initialize that ended in ModelLoadError after the safe load had grown *)
(* the allowlist on each of its MaxAttempts attempts                        *)
C21_Witness ==
    /\ called.op = "initialize"
    /\ called.exc = "ModelLoadError"
    /\ deployment.safe_ctx
    /\ deployment.missing > MaxAttempts
    /\ engine.allowlist = MaxAttempts

(* C22: the speaker_manager helpers complete at most one registration of    *)
(* the reference audio, however many requests resolve it, and once one has  *)
(* completed a further resolve of the same path calls no helper.            *)
C22_RegisteredOncePerPath ==
    /\ engine.registered <= 1
    /\ engine.registered >= 1 => RegisterOutcome(TRUE).e.registered = engine.registered

-----------------------------------------------------------------------------
(* Starting a session through the request model *)

MaxNameLength == 50

(* VoiceRecordingRequest(profile_name, total_steps): pydantic refuses a     *)
(* name shorter than 1 or longer than 50 characters and a total_steps       *)
(* outside 5..20; it does not strip the name.                               *)
VoiceRecordingRequest(name, total) ==
    /\ Len(name) >= 1
    /\ Len(name) <= MaxNameLength
    /\ total >= MinTotalSteps
    /\ total <= MaxTotalSteps

(* POST /profiles/start-recording: the body is parsed into the request     *)
(* model before the service is called                                      *)
route_start_recording_session(d, f, s, id, user, name, total) ==
    IF ~VoiceRecordingRequest(name, total)
    THEN Outcome(d, f, s, Raised("ValidationError", "none"))
    ELSE StartAt(d, f, s, id, user, name, total)

RequestedNames == {<<>>, <<" ">>, <<" ", " ">>, <<"V", "A">>}
RequestedTotals == {0, MinTotalSteps - 1, MinTotalSteps, MaxTotalSteps, MaxTotalSteps + 1}
ValidationErrors == {"ValidationError", "ValidationException"}

StartOutcome(name, total) ==
    route_start_recording_session(disk, files, active_sessions, issued + 1, "u1", name, total)

(* C23: a start whose profile_name is empty or only blanks, or whose        *)
(* total_steps lies outside MinTotalSteps..MaxTotalSteps, raises a          *)
(* validation error and leaves the profile store as it was.                 *)
C23_InvalidStartRejected ==
    issued < MaxProfiles =>
        \A name \in RequestedNames, total \in RequestedTotals :
            (strip(name) = <<>> \/ total < MinTotalSteps \/ total > MaxTotalSteps) =>
                /\ StartOutcome(name, total).res.exc \in ValidationErrors
                /\ StartOutcome(name, total).disk = disk
                /\ StartOutcome(name, total).sessions = active_sessions

-----------------------------------------------------------------------------
(* The quality of a profile *)

Tiers == {"excellent", "good", "fair", "poor"}

(* the quality a record holds, unset being the empty sequence *)
QualityOf(rec) == IF impl = "services" THEN <<rec.quality>> ELSE rec.quality

(* the tier of the mean quality score of the completed steps; the services  *)
(* variant keeps no scores                                                  *)
MeanTier(rec) ==
    IF impl = "services" THEN QualityOf(rec)
    ELSE <<QualityTier(SumOver(CompletedSteps(rec), "quality_score"), Len(CompletedSteps(rec)))>>

(* C24: a recording profile has no quality; a ready profile's quality is    *)
(* one of the four tiers, the tier of the mean quality score of its         *)
(* completed steps, and so is the quality its owner's use returns.          *)
C24_QualityIsMeanTier ==
    \A p \in ProfileIds :
        Profile(p) # None =>
            /\ Profile(p).status = "recording" => QualityOf(Profile(p)) = <<>>
            /\ Profile(p).status = "ready" =>
                  /\ QualityOf(Profile(p)) \in {<<t>> : t \in Tiers}
                  /\ QualityOf(Profile(p)) = MeanTier(Profile(p))
                  /\ UseOutcome(Owner(Profile(p)), p).res.exc = "none" =>
                        UseOutcome(Owner(Profile(p)), p).res.ret.quality \in {<<t>> : t \in Tiers}

-----------------------------------------------------------------------------
(* The background task manager *)

(* C25: between the calls of a sequential series of start and stop, the     *)
(* manager is running exactly when its task list is not empty: it is not    *)
(* running at first, running with tasks after a start, not running and      *)
(* without tasks after a stop; a start while running and a stop while       *)
(* stopped change nothing.                                                  *)
C25_RunningIffTasks ==
    control.pc = "idle" =>
        /\ background_tasks.running <=> background_tasks.tasks # <<>>
        /\ control.last = "none" => ~background_tasks.running
        /\ control.last = "start" => background_tasks.running /\ background_tasks.tasks # <<>>
        /\ control.last = "stop" => ~background_tasks.running /\ background_tasks.tasks = <<>>
        /\ background_tasks.running => start(background_tasks) = background_tasks
        /\ ~background_tasks.running => stop_begins(background_tasks) = background_tasks

(* the manager was started, stopped until its list was cleared, and started *)
(* again                                                                    *)
C25_Witness ==
    /\ control.pc = "idle"
    /\ control.last = "start"
    /\ control.cleared >= 1
    /\ background_tasks.running
    /\ Len(background_tasks.tasks) = 2

-----------------------------------------------------------------------------
(* The rate limit middleware *)

DispatchOutcome(request, status) == dispatch(buckets, request, clock, status)

(* C26: whatever the request, the health endpoints included, the response   *)
(* the middleware returns (or the HTTPException it answers with) carries    *)
(* X-RateLimit-Limit, X-RateLimit-Remaining and X-RateLimit-Reset.          *)
C26_RateLimitHeaders ==
    \A request \in HttpRequests, status \in Statuses :
        DispatchOutcome(request, status).response.exc \in {"none", "HTTPException"} =>
            RateLimitHeaders \subseteq DispatchOutcome(request, status).response.headers

-----------------------------------------------------------------------------
(* The upload store *)

AudioSuffixes == {"wav", "mp3", "ogg", "flac", "m4a"}

(* an upload named <stem>.<suffix> with the suffix of an audio format, of   *)
(* an allowed size                                                          *)
Acceptable(file) ==
    /\ Len(file.filename) = 3
    /\ lower(file.filename[3]) \in AudioSuffixes
    /\ file.size = "small"

Saved(id, file) == save_upload(upload_dir, id, file)

(* C27: save_upload of an acceptable upload returns a file id for which     *)
(* get_file_path returns the path of a file that exists; delete_file of     *)
(* that id then returns True, after which get_file_path returns None and a  *)
(* second delete_file returns False.                                        *)
C27_StoreRoundTrip ==
    \A id \in FileIds, file \in Uploads :
        (Fresh(id) /\ Acceptable(file)) =>
            /\ Saved(id, file).exc = "none"
            /\ Saved(id, file).id = id
            /\ get_file_path(Saved(id, file).dir, id).path \in Saved(id, file).dir
            /\ delete_file(Saved(id, file).dir, id).ok
            /\ get_file_path(delete_file(Saved(id, file).dir, id).dir, id).path = <<>>
            /\ ~delete_file(delete_file(Saved(id, file).dir, id).dir, id).ok

-----------------------------------------------------------------------------
(* Probe samples around the thresholds of validate_audio: durations on     *)
(* both sides of 3 s and of the maximum, peaks on both sides of 0.01, and  *)
(* files that are missing or cannot be decoded.                            *)

ProbeDurations == {0, MinDurationTenths, CloningMinDurationTenths - 1, CloningMinDurationTenths,
                   MaxDurationTenths, MaxDurationTenths + 1}
ProbePeaks == {0, MinPeakThousandths - 1, MinPeakThousandths, 300}

ProbeSamples ==
    Samples \cup
    { [decodable |-> dec, duration |-> dur, peak |-> pk, silent |-> 10, rms_std |-> 20] :
        dec \in BOOLEAN, dur \in ProbeDurations, pk \in ProbePeaks }

(* C28: validate_audio always returns a boolean (it never raises): False for a
   file that is missing or cannot be decoded, for a duration below 3 seconds or
   above the configured maximum and for a peak amplitude below 0.01, True in
   every other case; and the services variant's submission is turned away with
   AUDIO_QUALITY_POOR exactly for the samples it returns False for. *)
C28_ValidateAudioGate ==
    /\ \A sample \in ProbeSamples :
          /\ validate_audio(sample) \in BOOLEAN
          /\ validate_audio(sample) =
                ~ \/ ~sample.decodable
                  \/ sample.duration < CloningMinDurationTenths
                  \/ sample.duration > MaxDurationTenths
                  \/ sample.peak < MinPeakThousandths
    /\ impl = "services" =>
          \A p \in ProfileIds, sample \in Samples :
              (Recording(p) /\ Profile(p).current_step <= Profile(p).total_steps) =>
                  (AudioQualityPoor(SubmitOutcome(Owner(Profile(p)), p, ExpectedStep(Profile(p)), sample).res)
                      <=> ~validate_audio(sample))

C28_Witness ==
    /\ impl = "services"
    /\ last.op = "submit"
    /\ AudioQualityPoor(last.res)

-----------------------------------------------------------------------------
(* step k of the record has been recorded: its completed flag is set, or   *)
(* the profile is ready, which it becomes when its last step is recorded   *)
StepDone(rec, k) ==
    /\ k \in 1..rec.total_steps
    /\ (rec.status = "ready" \/ CompletedFlags(rec)[k])

(* C29: for every profile, every step of it that is already completed (an
   earlier step while the profile is recording, any step once it is ready) and
   every audio: the owner's submission of that step raises and leaves the
   record, the active session and the stored recordings as they were, so that
   nothing is overwritten and the profile is not finalized again. *)
C29_ResubmissionRejected ==
    \A p \in ProfileIds :
        Profile(p) # None =>
            \A k \in 1..Profile(p).total_steps, sample \in Samples :
                StepDone(Profile(p), k) =>
                    /\ SubmitOutcome(Owner(Profile(p)), p, k, sample).res.exc # "none"
                    /\ Unchanged(SubmitOutcome(Owner(Profile(p)), p, k, sample))

-----------------------------------------------------------------------------
(* the owner's submission of the step the profile expects *)
NextStepOutcome(p, sample) ==
    SubmitOutcome(Owner(Profile(p)), p, ExpectedStep(Profile(p)), sample)

(* the number of the step such a submission completes: k *)
Kth(p) == CompletedCount(Profile(p)) + 1

(* the steps recorded so far are the first ones, in order *)
InOrder(rec) ==
    \A i \in 1..rec.total_steps : CompletedFlags(rec)[i] <=> i <= CompletedCount(rec)

(* C30: for every recording profile of N steps whose first k - 1 steps are
   the completed ones (1 <= k <= N) and every audio with which the owner's submission of the
   expected step is accepted: the response reports progress_percentage
   = k / N * 100 (100 when k = N), as current_step the step the profile expects
   next, and as next_prompt the prompt of step k + 1, null exactly when
   k = N. *)
C30_ProgressReported ==
    \A p \in ProfileIds, sample \in Samples :
        ( /\ Recording(p)
          /\ InOrder(Profile(p))
          /\ Kth(p) <= Profile(p).total_steps
          /\ NextStepOutcome(p, sample).res.exc = "none" ) =>
            LET N == Profile(p).total_steps
                k == Kth(p)
                o == NextStepOutcome(p, sample)
            IN /\ o.res.ret.progress_percentage.num * N
                      = k * 100 * o.res.ret.progress_percentage.den
               /\ (k = N => o.res.ret.progress_percentage.num
                               = 100 * o.res.ret.progress_percentage.den)
               /\ o.res.ret.current_step = ExpectedStep(ProfileIn(o.disk, o.sessions, p))
               /\ (k < N => o.res.ret.next_prompt = <<PromptsOf(Profile(p))[k + 1]>>)
               /\ (o.res.ret.next_prompt = <<>> <=> k = N)

-----------------------------------------------------------------------------
(* what a step leaves alone of profile p, and how its progress moves *)
ProgressKept(p) ==
    (Profile(p) # None /\ Profile(p)' # None) =>
        /\ Profile(p)'.total_steps = Profile(p).total_steps
        /\ PromptsOf(Profile(p)') = PromptsOf(Profile(p))
        /\ StepNumbersOf(Profile(p)') = StepNumbersOf(Profile(p))
        /\ Profile(p).status = "recording" =>
              CompletedCount(Profile(p)') >= CompletedCount(Profile(p))

(* C31: every profile has 0 <= completed_steps <= total_steps, its expected
   step lies in 1..total_steps + 1; no step changes total_steps or the list of steps and prompts
   of an existing profile; and no step taken while the profile is recording
   lowers completed_steps. *)
C31_ProgressWithinBounds ==
    /\ [](\A p \in ProfileIds :
            Profile(p) # None =>
                /\ CompletedCount(Profile(p)) \in 0..Profile(p).total_steps
                /\ ExpectedStep(Profile(p)) \in 1..(Profile(p).total_steps + 1))
    /\ [][\A p \in ProfileIds : ProgressKept(p)]_vars

(* a profile that reached its last step: completed_steps = total_steps in   *)
(* the models variant, the step counter at its end in the services variant  *)
C31_Witness ==
    /\ last.op = "submit"
    /\ last.res.exc = "none"
    /\ \E p \in ProfileIds :
          /\ Profile(p) # None
          /\ Profile(p).status # "recording"
          /\ ExpectedStep(Profile(p)) >= Profile(p).total_steps

-----------------------------------------------------------------------------
(* GET /profiles/{profile_id}/sample.  The service object the route gets    *)
(* is the VoiceProfileService itself (it has all five expected methods, so  *)
(* no adapter wraps it) and has no get_profile_metadata: the AttributeError *)
(* sends the route to use_voice_profile, whose voice_embedding_path it then *)
(* answers with.                                                            *)
route_get_voice_sample(d, f, s, user, pid) ==
    LET o == UseAt(d, f, s, user, pid)
    IN IF o.res.exc # "none" THEN o
       ELSE IF o.res.ret.voice_embedding_path = <<>>
       THEN Outcome(o.disk, o.files, o.sessions,
                    Raised("ValidationException", "FILE_NOT_FOUND"))
       ELSE IF \E x \in o.files[pid] : x.name = o.res.ret.voice_embedding_path[1]
       THEN Outcome(o.disk, o.files, o.sessions,
                    Returned([sample |-> o.res.ret.voice_embedding_path]))
       ELSE Outcome(o.disk, o.files, o.sessions,
                    Raised("ValidationException", "FILE_NOT_FOUND"))

SampleOutcome(u, p) == route_get_voice_sample(disk, files, active_sessions, u, p)

(* the usage counter of profile p after a call with outcome o is what it was *)
UsageKept(o, p) ==
    ProfileIn(o.disk, o.sessions, p) # None =>
        ProfileIn(o.disk, o.sessions, p).times_used = Profile(p).times_used

(* C32: for every existing profile and every user: a submission of any step
   with any audio, a use that fails, a listing and a fetch of the profile's
   voice sample leave the profile's usage counter as it was; only a use that
   is served changes it. *)
C32_UsageOnlyOnUse ==
    \A p \in ProfileIds, u \in Users :
        Profile(p) # None =>
            /\ \A k \in 0..(Profile(p).total_steps + 1), sample \in Samples :
                  UsageKept(SubmitOutcome(u, p, k, sample), p)
            /\ (UseOutcome(u, p).res.exc # "none" => UsageKept(UseOutcome(u, p), p))
            /\ UsageKept(SampleOutcome(u, p), p)

-----------------------------------------------------------------------------
(* the speaker the selection policy settles on for a loaded model: the     *)
(* explicit one, else the configured default id, else the first identity   *)
(* of the registry                                                         *)
PolicySpeaker(model, speaker) ==
    IF speaker # Nil THEN speaker
    ELSE IF deployment.default_id # Nil THEN deployment.default_id
    ELSE IF deployment.manager /\ model.speakers # <<>> THEN model.speakers[1]
    ELSE Nil

ExplicitSpeakers == {Nil, "s0", "other"}

(* C33: for every explicit speaker or none, every configured default id or
   none and every content of the registry: once the model is loaded and one of
   the three is there, synthesize calls tts_to_file, and the speaker it hands
   to that call and settles on is the explicit speaker if given, else the
   default speaker id if configured, else the first identity of the
   registry. *)
C33_SpeakerSelection ==
    \A speaker \in ExplicitSpeakers :
        LET init == InitializeOutcome
            out == SynthesizeOutcome(speaker)
        IN (/\ init.res.exc = "none"
            /\ init.e.model # None
            /\ PolicySpeaker(init.e.model, speaker) # Nil) =>
              /\ out.calls # <<>>
              /\ out.calls[1] = PolicySpeaker(init.e.model, speaker)
              /\ out.identity = PolicySpeaker(init.e.model, speaker)

(* synthesize was called without a speaker where no default id is          *)
(* configured, and went to the backend with the first registered identity  *)
C33_Witness ==
    /\ called.op = "synthesize"
    /\ called.arg = Nil
    /\ deployment.default_id = Nil
    /\ engine.model # None
    /\ engine.model.speakers # <<>>
    /\ called.calls # <<>>
    /\ called.calls[1] = engine.model.speakers[1]
    /\ called.identity = engine.model.speakers[1]

-----------------------------------------------------------------------------
(* a backend whose model has no speaker manager: a single-speaker model *)
SingleSpeaker(b) == ~b.manager

(* C34: on a backend without an identity registry, with no default speaker
   id configured, synthesize without an explicit speaker on a model that loads
   does not raise the error that asks for a speaker and calls tts_to_file,
   whatever the fallback-without-speaker setting. *)
C34_PolicyOnlyMultiSpeaker ==
    (/\ SingleSpeaker(deployment)
     /\ deployment.default_id = Nil
     /\ InitializeOutcome.res.exc = "none"
     /\ InitializeOutcome.e.model # None) =>
        /\ SynthesizeOutcome(Nil).res.code # "speaker_required"
        /\ SynthesizeOutcome(Nil).calls # <<>>

-----------------------------------------------------------------------------
(* the speaker of the last call of tts_to_file, the one that returned when *)
(* the invocation succeeded                                                *)
LastCallSpeaker(calls) == calls[Len(calls)]

(* C35: whenever synthesize returns success, with any explicit speaker or
   none, the speaker of its result is the speaker given to the call of
   tts_to_file that returned, also when that call is the retry with a speaker
   the invoker resolved or a later strategy. *)
C35_ReportedSpeakerUsed ==
    \A speaker \in ExplicitSpeakers :
        SynthesizeOutcome(speaker).res.exc = "none" =>
            /\ SynthesizeOutcome(speaker).calls # <<>>
            /\ SynthesizeOutcome(speaker).res.ret.speaker
                  = LastCallSpeaker(SynthesizeOutcome(speaker).calls)

-----------------------------------------------------------------------------
(* the deployment with other helpers on its speaker manager *)
WithHelpers(h) == [deployment EXCEPT !.helpers = h]

(* helpers that are all missing, one that returns without an identity and  *)
(* registers nothing, and one that returns the identity after one that     *)
(* raises                                                                  *)
ProbedHelpers ==
    { NoHelpers,
      <<"returns_none", "absent", "absent", "absent">>,
      <<"raises", "absent", "returns_id", "absent">> }

(* C36: for an existing reference file and any helpers of the speaker
   manager, the resolver never raises; when it returns None the speaker
   manager has no helper left that yields an identity; and when the
   engine-level capability, register_speaker_from_wav of the engine, returns
   without an identity, the resolver goes on to the helpers of the speaker
   manager and returns what they give. *)
C36_NoneOnlyOnExhaustion ==
    \A h \in ProbedHelpers :
        LET b == WithHelpers(h)
            reg == register_speaker_from_wav(engine, b, TRUE, 0)
            out == try_register_speaker(engine, b, TRUE)
        IN /\ out.res.exc = "none"
           /\ ReturnsNone(out) => ReturnsNone(manager_phase(out.e, b))
           /\ ReturnsNone(reg) => out = manager_phase(reg.e, b)

-----------------------------------------------------------------------------
(* the number of requests allowed out of n requests of one client on one   *)
(* endpoint class that arrive one after the other at the same time: once   *)
(* one is denied, those after it are denied as well                        *)
RECURSIVE AllowedOf(_, _, _, _, _, _)
AllowedOf(bs, client_id, endpoint, now, n, count) ==
    IF n = 0 \/ count < 0 THEN count
    ELSE IF check_rate_limit(bs, client_id, endpoint, now).allowed
    THEN AllowedOf(check_rate_limit(bs, client_id, endpoint, now).buckets, client_id, endpoint,
                   now, n - 1, count + 1)
    ELSE count

(* the buckets after n such requests *)
RECURSIVE AfterBurst(_, _, _, _, _)
AfterBurst(bs, client_id, endpoint, now, n) ==
    IF n = 0 \/ bs = <<>> THEN bs
    ELSE AfterBurst(check_rate_limit(bs, client_id, endpoint, now).buckets, client_id, endpoint,
                    now, n - 1)

(* the same count, taken in two runs of at most DequeMaxLen requests and   *)
(* of the rest                                                             *)
AllowedInBurst(client_id, endpoint, n) ==
    AllowedOf(buckets, client_id, endpoint, clock, Min(n, DequeMaxLen), 0)
    + AllowedOf(AfterBurst(buckets, client_id, endpoint, clock, Min(n, DequeMaxLen)),
                client_id, endpoint, clock, n - Min(n, DequeMaxLen), 0)

(* the allowed requests of the key that lie in the window ending now *)
Held(client_id, endpoint) ==
    Len(clean(buckets[<<client_id, endpoint>>], clock - limits(endpoint).window))

(* C37: for every client and endpoint class, with the bucket as it is: a
   denied request leaves the bucket with the requests of the window and
   nothing more; and of limit + 1 further requests arriving now, only as many
   are allowed as keep the allowed requests of the window within the class's
   limit (10 upload, 100 synthesize, 50 clone, 200 default). *)
C37_WindowWithinLimit ==
    \A c \in ClientIds, endpoint \in EndpointTypes :
        /\ ~check_rate_limit(buckets, c, endpoint, clock).allowed =>
              check_rate_limit(buckets, c, endpoint, clock).buckets[<<c, endpoint>>]
                  = clean(buckets[<<c, endpoint>>], clock - limits(endpoint).window)
        /\ Held(c, endpoint)
              + AllowedInBurst(c, endpoint, limits(endpoint).requests + 1)
                  <= limits(endpoint).requests

-----------------------------------------------------------------------------
(* the frames of register_speaker_from_wav and the helper calls that       *)
(* returned, in one call of it on the engine as initialize() leaves it     *)
FramesOpened == RegisterOutcome(TRUE).e.frames - InitializeOutcome.e.frames
HelpersReturned == RegisterOutcome(TRUE).e.registered - InitializeOutcome.e.registered

(* C38: a call of register_speaker_from_wav for an existing file on an
   engine whose model loads returns or raises after one frame of the method,
   that is, the probe of the engine-level names does not call the method
   again; and at most one helper of the speaker manager returns in it. *)
C38_RegisterNotReentered ==
    InitializeOutcome.res.exc = "none" =>
        /\ FramesOpened = 1
        /\ HelpersReturned <= 1

-----------------------------------------------------------------------------
(* a task of the list that has not been cancelled and has not ended *)
Live(task) == task.state \in {"pending", "sleeping"}

LiveTasks(m) == {i \in 1..Len(m.tasks) : Live(m.tasks[i])}

(* C39: once a start() made while stop() was suspended and that stop() have
   both returned, and until the next call, the manager is running exactly when
   its task list holds a live task. *)
C39_ConsistentAfterOverlap ==
    (control.pc = "idle" /\ control.overlapped >= 1 /\ control.last = "stop") =>
        (background_tasks.running <=> LiveTasks(background_tasks) # {})

-----------------------------------------------------------------------------
(* C40: after every model initialization that took the trusted fallback    *)
(* has completed, with success or with failure, the global torch.load is   *)
(* the original function again, also when two engine instances run the     *)
(* fallback concurrently in worker threads: whenever no worker is inside   *)
(* the fallback and at least one fallback has completed, torch_load is     *)
(* Original.                                                               *)
NoneInFallback == \A t \in Requests : workers[t].pc = "idle"

C40_TorchLoadRestored ==
    (NoneInFallback /\ \E t \in Requests : Completed(workers[t])) => torch_load = Original
=============================================================================
